---- MODULE Spec2Model ----
(***************************************************************************)
(* Slot computation of the Bitrix24 weekly booking view:                   *)
(* SlotService.getAvailableSlots and the helpers it calls                  *)
(* (src/Bitrix24-Weekly-View/src/services/slotService.ts).                 *)
(*                                                                         *)
(* Conventions of the model                                                *)
(*  - A JavaScript string of digits and colons is a sequence of character  *)
(*    codes: the digits 0..9 stand for themselves, Colon for ':'.  The     *)
(*    order of the codes is the order of the UTF-16 code units ('0' < ...  *)
(*    < '9' < ':'), so Array.prototype.sort() is the lexicographic order   *)
(*    of these sequences.                                                  *)
(*  - A Date is the number of minutes since local midnight of day 0        *)
(*    (seconds and milliseconds are zero throughout, the local time zone   *)
(*    has no daylight-saving change on the modelled days); an invalid      *)
(*    Date is [valid |-> FALSE].                                           *)
(*  - A value of unknown shape coming from the REST API is a record        *)
(*    [kind, s, n]: kind "undefined", "string" (s), "number" (n),          *)
(*    "objFormatted" (an object whose formatted/value/time is the string   *)
(*    s) or "objTimestamp" (an object whose timestamp is n seconds).       *)
(***************************************************************************)
EXTENDS Integers, Sequences, FiniteSets, TLC

\* ------------------------------------------------------------------------
\* Bounds of the model
\* ------------------------------------------------------------------------
MaxBookings == 1    \* booking items in one booking.v1.booking.list response

\* ------------------------------------------------------------------------
\* JavaScript strings and numbers
\* ------------------------------------------------------------------------
Colon == 10

MinutesPerDay == 24 * 60

Range(f) == { f[i] : i \in DOMAIN f }

\* String(n) for an integer n >= 0
RECURSIVE NumToStr(_)
NumToStr(n) == IF n < 10 THEN <<n>> ELSE NumToStr(n \div 10) \o <<n % 10>>

\* s.padStart(2, '0')
PadStart2(s) == IF Len(s) >= 2 THEN s ELSE IF Len(s) = 1 THEN <<0>> \o s ELSE <<0, 0>>

\* Number(s) for a string of digits; Number('') is 0
RECURSIVE StrToNum(_)
StrToNum(s) == IF s = <<>> THEN 0 ELSE 10 * StrToNum(SubSeq(s, 1, Len(s) - 1)) + s[Len(s)]

\* s.split(':')
RECURSIVE Split(_)
Split(s) ==
    IF \A i \in DOMAIN s : s[i] # Colon
    THEN <<s>>
    ELSE LET i == CHOOSE k \in DOMAIN s : s[k] = Colon /\ \A j \in 1..(k - 1) : s[j] # Colon
         IN  <<SubSeq(s, 1, i - 1)>> \o Split(SubSeq(s, i + 1, Len(s)))

\* a < b in the order Array.prototype.sort() uses (UTF-16 code units)
StrLess(a, b) ==
    \E k \in 1..(Len(a) + 1) :
        /\ \A j \in 1..(k - 1) : j <= Len(b) /\ a[j] = b[j]
        /\ \/ (k = Len(a) + 1 /\ Len(b) >= k)
           \/ (k <= Len(a) /\ k <= Len(b) /\ a[k] < b[k])

\* strs.sort()[0]
SortFirst(strs) == CHOOSE s \in Range(strs) : \A t \in Range(strs) : ~StrLess(t, s)

\* strs.sort().slice(-1)[0]
SortLast(strs) == CHOOSE s \in Range(strs) : \A t \in Range(strs) : ~StrLess(s, t)

\* const [hh, mm] = time.split(':').map(Number);  (hh || 0) * 60 + (mm || 0)
minutesOf(time) ==
    LET parts == Split(time)
        hh == StrToNum(parts[1])
        mm == IF Len(parts) >= 2 THEN StrToNum(parts[2]) ELSE 0
    IN  hh * 60 + mm

\* variant: the hours wrap at twelve
formatTime_twelveHour(totalMinutes) ==
    PadStart2(NumToStr((totalMinutes \div 60) % 12)) \o <<Colon>> \o PadStart2(NumToStr(totalMinutes % 60))

formatTime(totalMinutes) ==
    PadStart2(NumToStr(totalMinutes \div 60)) \o <<Colon>> \o PadStart2(NumToStr(totalMinutes % 60))

\* ------------------------------------------------------------------------
\* Program constants
\* ------------------------------------------------------------------------
DEFAULT_SLOT_DURATION == 60
DEFAULT_START_TIME == <<0, 8, Colon, 0, 0>>
DEFAULT_END_TIME == <<2, 0, Colon, 0, 0>>

\* ------------------------------------------------------------------------
\* Values of unknown shape received from the REST API
\* ------------------------------------------------------------------------
RUndef == [n |-> 0, s |-> <<>>, kind |-> "undefined"]
RStr(s) == [n |-> 0, s |-> s, kind |-> "string"]
RNum(n) == [n |-> n, s |-> <<>>, kind |-> "number"]
RObjFormatted(s) == [n |-> 0, s |-> s, kind |-> "objFormatted"]
RObjTimestamp(n) == [n |-> n, s |-> <<>>, kind |-> "objTimestamp"]

\* string | null
Null == [s |-> <<>>, null |-> TRUE]
Str(s) == [s |-> s, null |-> FALSE]
Truthy(v) == ~v.null /\ v.s # <<>>

\* value.length >= 5 ? value.substring(0, 5) : value
keepHHMM(s) == IF Len(s) >= 5 THEN SubSeq(s, 1, 5) ELSE s

\* new Date(ts * 1000): getHours() and getMinutes(), padded
timestampToHHMM(ts) ==
    PadStart2(NumToStr((ts \div 3600) % 24)) \o <<Colon>> \o PadStart2(NumToStr((ts \div 60) % 60))

coerceTime(value) ==
    IF value.kind = "string" THEN Str(keepHHMM(value.s))
    ELSE IF value.kind = "objFormatted" THEN Str(keepHHMM(value.s))
    ELSE IF value.kind = "objTimestamp" THEN Str(timestampToHHMM(value.n))
    ELSE Null

\* ------------------------------------------------------------------------
\* Dates and date strings
\* ------------------------------------------------------------------------
\* A date-time string or field: "undefined", "iso" (a local date-time string
\* of the instant `at`), "object" (a non-string value such as
\* {timestamp, timezone}), "empty" ('') and "objectObject" ('[object Object]').
DUndef == [kind |-> "undefined", at |-> 0]
DIso(at) == [kind |-> "iso", at |-> at]
DObject == [kind |-> "object", at |-> 0]
DEmpty == [kind |-> "empty", at |-> 0]

InvalidDate == [t |-> 0, valid |-> FALSE]
DateAt(t) == [t |-> t, valid |-> TRUE]

\* new Date(str)
newDate(str) == IF str.kind = "iso" THEN DateAt(str.at) ELSE InvalidDate

\* String(v)
jsString(v) ==
    IF v.kind = "object" THEN [kind |-> "objectObject", at |-> 0]
    ELSE v

\* a ?? b
Nullish(a, b) == IF a.kind = "undefined" THEN b ELSE a

\* relational operators on Dates: every comparison with an invalid Date is false
DateLt(a, b) == a.valid /\ b.valid /\ a.t < b.t
DateLe(a, b) == a.valid /\ b.valid /\ a.t <= b.t
DateGt(a, b) == DateLt(b, a)
DateGe(a, b) == DateLe(b, a)

\* `${String(d.getHours()).padStart(2, '0')}:${String(d.getMinutes()).padStart(2, '0')}`
dateToHHMM(d) ==
    PadStart2(NumToStr((d.t % MinutesPerDay) \div 60)) \o <<Colon>> \o PadStart2(NumToStr(d.t % 60))

\* const d = new Date(date); d.setHours(hh || 0, mm || 0, 0, 0)
\* the wall clock of the host, as a Date; no operator of SlotService reads it
VARIABLE clock

\* variant: the day is taken from the clock (new Date()), not from `date`
toDateTime_today(date, time) ==
    DateAt((clock - (clock % MinutesPerDay)) + minutesOf(time))

toDateTime(date, time) ==
    IF date.valid
    THEN DateAt((date.t - (date.t % MinutesPerDay)) + minutesOf(time))
    ELSE InvalidDate

\* ------------------------------------------------------------------------
\* getResourceConfigs: one ResourceSlotConfig per requested resource
\* ------------------------------------------------------------------------
\* variant: the fallback config has the whole day as its working window
defaultConfig_wholeDay(resourceId) ==
    [resourceId |-> resourceId,
     workStart |-> <<0, 0, Colon, 0, 0>>,
     workEnd |-> <<2, 3, Colon, 5, 9>>,
     slotDuration |-> DEFAULT_SLOT_DURATION,
     blockedSlots |-> <<>>]

defaultConfig(resourceId) ==
    [resourceId |-> resourceId,
     workStart |-> DEFAULT_START_TIME,
     workEnd |-> DEFAULT_END_TIME,
     slotDuration |-> DEFAULT_SLOT_DURATION,
     blockedSlots |-> <<>>]

\* the body of `for (const slot of slotsResponse.slots)`; a duration of 0
\* stands for an absent (falsy) duration
applySlot(config, slot) ==
    LET from == coerceTime(slot.from)
        to == coerceTime(slot.to)
    IN  [config EXCEPT
            !.workStart = IF Truthy(from) THEN from.s ELSE @,
            !.workEnd = IF Truthy(to) THEN to.s ELSE @,
            !.slotDuration = IF slot.duration # 0 THEN slot.duration ELSE @]

RECURSIVE applySlots(_, _)
applySlots(config, slots) ==
    IF slots = <<>> THEN config
    ELSE applySlots(applySlot(config, Head(slots)), Tail(slots))

\* the config after booking.v1.resource.slots.list has answered with data
configFromSlots(resourceId, slotsResponse) ==
    IF slotsResponse.hasSlots
    THEN applySlots(defaultConfig(resourceId), slotsResponse.slots)
    ELSE defaultConfig(resourceId)

busyItemsOf(busyResponse) ==
    IF busyResponse.kind = "array" THEN busyResponse.items
    ELSE IF busyResponse.kind = "busyTimes" THEN busyResponse.items
    ELSE <<>>

\* the body of `for (const busy of busyItems)`
pushBusy(config, busy) ==
    LET from == Nullish(Nullish(busy.dateFrom, busy.DATE_FROM), busy.from)
        to == Nullish(Nullish(busy.dateTo, busy.DATE_TO), busy.to)
    IN  IF from.kind \notin {"undefined", "empty"} /\ to.kind \notin {"undefined", "empty"}
        THEN [config EXCEPT !.blockedSlots =
                 Append(@, [start |-> dateToHHMM(newDate(from)), end |-> dateToHHMM(newDate(to))])]
        ELSE config

RECURSIVE pushBusyItems(_, _)
pushBusyItems(config, items) ==
    IF items = <<>> THEN config
    ELSE pushBusyItems(pushBusy(config, Head(items)), Tail(items))

\* ------------------------------------------------------------------------
\* getBookingsForDate
\* ------------------------------------------------------------------------
\* parseInt(String(v), 10) for a number or a string of digits
parseIntOf(v) ==
    IF v.kind = "number" THEN v.n
    ELSE IF v.kind = "string" /\ v.s # <<>> THEN StrToNum(v.s)
    ELSE -1  \* NaN, equal to no resource id

mapBookingItem(item) ==
    [resourceId |-> parseIntOf(Nullish(Nullish(item.resourceId, item.RESOURCE_ID), RNum(0))),
     dateFrom |-> jsString(Nullish(Nullish(item.dateFrom, item.DATE_FROM), DEmpty)),
     dateTo |-> jsString(Nullish(Nullish(item.dateTo, item.DATE_TO), DEmpty)),
     id |-> parseIntOf(Nullish(Nullish(item.id, item.ID), RNum(0)))]

rawItemsOf(response) ==
    IF response.kind \in {"array", "booking", "bookings", "result"} THEN response.items
    ELSE <<>>

bookingsFrom(response) ==
    IF response.kind = "error" THEN <<>>
    ELSE [i \in DOMAIN rawItemsOf(response) |-> mapBookingItem(rawItemsOf(response)[i])]

\* ------------------------------------------------------------------------
\* generateSlots
\* ------------------------------------------------------------------------
\* configByResource.get(resourceId): Map.set keeps the last config of an id
hasConfig(configs, resourceId) == \E i \in DOMAIN configs : configs[i].resourceId = resourceId

configByResource(configs, resourceId) ==
    configs[CHOOSE i \in DOMAIN configs :
                /\ configs[i].resourceId = resourceId
                /\ \A j \in DOMAIN configs : configs[j].resourceId = resourceId => j <= i]

\* configs.map(c => c.workStart).filter(Boolean)
workStarts(configs) ==
    SelectSeq([i \in DOMAIN configs |-> configs[i].workStart], LAMBDA t : t # <<>>)

workEnds(configs) ==
    SelectSeq([i \in DOMAIN configs |-> configs[i].workEnd], LAMBDA t : t # <<>>)

globalStart_unsorted(configs) ==
    IF Len(workStarts(configs)) > 0 THEN workStarts(configs)[1] ELSE DEFAULT_START_TIME

globalStart(configs) ==
    IF Len(workStarts(configs)) > 0 THEN SortFirst(workStarts(configs)) ELSE DEFAULT_START_TIME

globalEnd_first(configs) ==
    IF Len(workEnds(configs)) > 0 THEN SortFirst(workEnds(configs)) ELSE DEFAULT_END_TIME

globalEnd(configs) ==
    IF Len(workEnds(configs)) > 0 THEN SortLast(workEnds(configs)) ELSE DEFAULT_END_TIME

overlaps_closed(aStart, aEnd, bStart, bEnd) == DateLe(aStart, bEnd) /\ DateGe(aEnd, bStart)

overlaps(aStart, aEnd, bStart, bEnd) == DateLt(aStart, bEnd) /\ DateGt(aEnd, bStart)

\* bookings.map(...).filter(b => !Number.isNaN(b.start.getTime()) && !Number.isNaN(b.end.getTime()))
bookingRangesOf(bookings) ==
    SelectSeq([i \in DOMAIN bookings |->
                  [resourceId |-> bookings[i].resourceId,
                   start |-> newDate(bookings[i].dateFrom),
                   end |-> newDate(bookings[i].dateTo)]],
              LAMBDA b : b.start.valid /\ b.end.valid)

inWorkWindow_startOnly(date, configs, resourceId, slotStart, slotEnd) ==
    LET rStart == IF hasConfig(configs, resourceId)
                  THEN toDateTime(date, configByResource(configs, resourceId).workStart)
                  ELSE toDateTime(date, DEFAULT_START_TIME)
        rEnd == IF hasConfig(configs, resourceId)
                THEN toDateTime(date, configByResource(configs, resourceId).workEnd)
                ELSE toDateTime(date, DEFAULT_END_TIME)
    IN  DateGe(slotStart, rStart) /\ DateLt(slotStart, rEnd)

\* slotStart >= rStart && slotEnd <= rEnd, with the default window for a
\* resource that has no config
inWorkWindow(date, configs, resourceId, slotStart, slotEnd) ==
    LET rStart == IF hasConfig(configs, resourceId)
                  THEN toDateTime(date, configByResource(configs, resourceId).workStart)
                  ELSE toDateTime(date, DEFAULT_START_TIME)
        rEnd == IF hasConfig(configs, resourceId)
                THEN toDateTime(date, configByResource(configs, resourceId).workEnd)
                ELSE toDateTime(date, DEFAULT_END_TIME)
    IN  DateGe(slotStart, rStart) /\ DateLe(slotEnd, rEnd)

isBlockedAt_startOnly(date, configs, resourceId, slotStart, slotEnd) ==
    /\ hasConfig(configs, resourceId)
    /\ LET blockedSlots == configByResource(configs, resourceId).blockedSlots
       IN  \E i \in DOMAIN blockedSlots : toDateTime(date, blockedSlots[i].start) = slotStart

\* (cfg?.blockedSlots ?? []).some(b => overlaps(slotStart, slotEnd, toDateTime(b.start), toDateTime(b.end)))
isBlockedAt(date, configs, resourceId, slotStart, slotEnd) ==
    /\ hasConfig(configs, resourceId)
    /\ LET blockedSlots == configByResource(configs, resourceId).blockedSlots
       IN  \E i \in DOMAIN blockedSlots :
               overlaps(slotStart, slotEnd,
                        toDateTime(date, blockedSlots[i].start), toDateTime(date, blockedSlots[i].end))

hasOverlap_anyResource(bookingRanges, resourceId, slotStart, slotEnd) ==
    \E i \in DOMAIN bookingRanges :
        overlaps(slotStart, slotEnd, bookingRanges[i].start, bookingRanges[i].end)

\* bookingRanges.some(b => b.resourceId === resourceId && overlaps(slotStart, slotEnd, b.start, b.end))
hasOverlap(bookingRanges, resourceId, slotStart, slotEnd) ==
    \E i \in DOMAIN bookingRanges :
        /\ bookingRanges[i].resourceId = resourceId
        /\ overlaps(slotStart, slotEnd, bookingRanges[i].start, bookingRanges[i].end)

\* the body of `for (const resourceId of resourceIds)`: the ids that reach the push
availableResourceIdsAt(resourceIds, date, configs, bookingRanges, slotStart, slotEnd) ==
    SelectSeq(resourceIds,
              LAMBDA resourceId :
                  /\ inWorkWindow(date, configs, resourceId, slotStart, slotEnd)
                  /\ ~isBlockedAt(date, configs, resourceId, slotStart, slotEnd)
                  /\ ~hasOverlap(bookingRanges, resourceId, slotStart, slotEnd))

slotFits_startInside(currentMinutes, slotDuration, endMinutes) == currentMinutes < endMinutes

\* variant: the loop goes on while the slot ends before the end of the window
slotFits_strict(currentMinutes, slotDuration, endMinutes) == currentMinutes + slotDuration < endMinutes

\* the loop condition currentMinutes + slotDuration <= endMinutes
slotFits(currentMinutes, slotDuration, endMinutes) == currentMinutes + slotDuration <= endMinutes

\* variant: a slot counts as available from two free resources on
makeSlot_needsTwo(startTime, endTime, availableResourceIds) ==
    [resourceIds |-> availableResourceIds,
     startTime |-> startTime,
     endTime |-> endTime,
     available |-> Len(availableResourceIds) > 1]

\* the object pushed onto availableSlots
makeSlot(startTime, endTime, availableResourceIds) ==
    [resourceIds |-> availableResourceIds,
     startTime |-> startTime,
     endTime |-> endTime,
     available |-> Len(availableResourceIds) > 0]

\* the while loop of generateSlots, from currentMinutes on
RECURSIVE slotLoop(_, _, _, _, _, _, _)
slotLoop(currentMinutes, endMinutes, resourceIds, date, configs, bookingRanges, slotDuration) ==
    IF slotFits(currentMinutes, slotDuration, endMinutes)
    THEN LET startTime == formatTime(currentMinutes)
             endTime == formatTime(currentMinutes + slotDuration)
             slotStart == toDateTime(date, startTime)
             slotEnd == toDateTime(date, endTime)
         IN  <<makeSlot(startTime, endTime,
                        availableResourceIdsAt(resourceIds, date, configs, bookingRanges, slotStart, slotEnd))>>
             \o slotLoop(currentMinutes + slotDuration, endMinutes, resourceIds, date, configs,
                         bookingRanges, slotDuration)
    ELSE <<>>

generateSlots(resourceIds, date, configs, bookings, slotDuration) ==
    slotLoop(minutesOf(globalStart(configs)), minutesOf(globalEnd(configs)),
             resourceIds, date, configs, bookingRangesOf(bookings), slotDuration)

\* ------------------------------------------------------------------------
\* generateDefaultSlots
\* ------------------------------------------------------------------------
RECURSIVE defaultSlotLoop(_, _, _, _, _)
defaultSlotLoop(currentMinutes, endMinutes, slotDuration, resourceIds, blockedSlots) ==
    IF slotFits(currentMinutes, slotDuration, endMinutes)
    THEN LET start == formatTime(currentMinutes)
             end == formatTime(currentMinutes + slotDuration)
             isBlocked == \E i \in DOMAIN blockedSlots : blockedSlots[i].start = start
         IN  <<[resourceIds |-> IF isBlocked THEN <<>> ELSE resourceIds,
                startTime |-> start,
                endTime |-> end,
                available |-> ~isBlocked]>>
             \o defaultSlotLoop(currentMinutes + slotDuration, endMinutes, slotDuration,
                                resourceIds, blockedSlots)
    ELSE <<>>

generateDefaultSlots_noneIfEmpty(slotDuration, resourceIds, blockedSlots) ==
    IF resourceIds = <<>> THEN <<>>
    ELSE defaultSlotLoop(minutesOf(DEFAULT_START_TIME), minutesOf(DEFAULT_END_TIME),
                         slotDuration, resourceIds, blockedSlots)

\* variant: the default slots offer no resource
generateDefaultSlots_unavailable(slotDuration, resourceIds, blockedSlots) ==
    defaultSlotLoop(minutesOf(DEFAULT_START_TIME), minutesOf(DEFAULT_END_TIME),
                    slotDuration, <<>>, blockedSlots)

generateDefaultSlots(slotDuration, resourceIds, blockedSlots) ==
    defaultSlotLoop(minutesOf(DEFAULT_START_TIME), minutesOf(DEFAULT_END_TIME),
                    slotDuration, resourceIds, blockedSlots)

\* ------------------------------------------------------------------------
\* Inputs: the arguments of getAvailableSlots and the answers of the REST API
\* ------------------------------------------------------------------------
\* the instant h:m of day `day`
At(day, h, m) == day * MinutesPerDay + h * 60 + m

HHMM(a, b, c, d) == <<a, b, Colon, c, d>>
HHMMSS(a, b, c, d) == <<a, b, Colon, c, d, Colon, 0, 0>>

\* resourceIds: the selections of the resources 1 and 2, duplicate-free
ResourceIdLists == { <<>>, <<1>>, <<2>>, <<1, 2>> }

\* date: a day (day 1) with a time-of-day component, or an Invalid Date
QueryDate == DateAt(At(1, 13, 45))
Dates == { QueryDate, InvalidDate }

SlotDurations == { 60, 90 }

SlotEntry(from, to, duration) == [from |-> from, to |-> to, duration |-> duration]

SlotsError == [kind |-> "error", slots |-> <<>>, hasSlots |-> FALSE]
SlotsData(slots) == [kind |-> "data", slots |-> slots, hasSlots |-> TRUE]

\* answers of booking.v1.resource.slots.list
SlotsResponses ==
    { SlotsError,
      \* data without a slots array
      [kind |-> "data", slots |-> <<>>, hasSlots |-> FALSE],
      \* 09:30-18:00, as an HH:MM:SS and an HH:MM string
      SlotsData(<<SlotEntry(RStr(HHMMSS(0, 9, 3, 0)), RStr(HHMM(1, 8, 0, 0)), 0)>>),
      \* 07:00 as a timestamp object, 22:00 as a formatted object
      SlotsData(<<SlotEntry(RObjTimestamp(2 * 86400 + 7 * 3600), RObjFormatted(HHMM(2, 2, 0, 0)), 30)>>),
      \* 14:00-15:00, followed by an entry in minutes of the day (numbers),
      \* which coerceTime does not accept
      SlotsData(<<SlotEntry(RStr(HHMM(1, 4, 0, 0)), RStr(HHMM(1, 5, 0, 0)), 0),
                  SlotEntry(RNum(540), RNum(1080), 60)>>) }

BusyItem(dateFrom, dateTo, DATE_FROM, DATE_TO, from, to) ==
    [from |-> from, to |-> to,
     dateFrom |-> dateFrom, DATE_FROM |-> DATE_FROM, dateTo |-> dateTo, DATE_TO |-> DATE_TO]

\* 10:00-11:00 of the queried day
Busy10 == BusyItem(DIso(At(1, 10, 0)), DIso(At(1, 11, 0)), DUndef, DUndef, DUndef, DUndef)
\* 22:00 of the day before to 09:00 of the queried day
BusyOvernight == BusyItem(DUndef, DUndef, DIso(At(0, 22, 0)), DIso(At(1, 9, 0)), DUndef, DUndef)
\* 14:00-15:00 of the queried day
Busy14 == BusyItem(DUndef, DUndef, DUndef, DUndef, DIso(At(1, 14, 0)), DIso(At(1, 15, 0)))
\* an item without an end
BusyOpen == BusyItem(DIso(At(1, 8, 0)), DUndef, DUndef, DUndef, DUndef, DUndef)

\* answers of booking.v1.resourceBusyTime.list
BusyResponses ==
    { [kind |-> "error", items |-> <<>>],
      [kind |-> "array", items |-> <<Busy10>>],
      [kind |-> "busyTimes", items |-> <<BusyOvernight, Busy14, BusyOpen>>] }

\* the sequences of at most n elements of S
SeqsUpTo(S, n) == UNION { [1..k -> S] : k \in 0..n }

RawBooking(id, ID, resourceId, RESOURCE_ID, resourceIds, dateFrom, dateTo, DATE_FROM, DATE_TO) ==
    [resourceId |-> resourceId,
     dateFrom |-> dateFrom, DATE_FROM |-> DATE_FROM, dateTo |-> dateTo, DATE_TO |-> DATE_TO,
     RESOURCE_ID |-> RESOURCE_ID, id |-> id, ID |-> ID,
     resourceIds |-> resourceIds]

\* a booking of one resource, camelCase fields
BookingOf(id, resourceId, from, to) ==
    RawBooking(RNum(id), RUndef, RNum(resourceId), RUndef, <<>>, DIso(from), DIso(to), DUndef, DUndef)

RawBookings ==
    { BookingOf(1, 1, At(1, 10, 0), At(1, 11, 0)),
      \* upper-case fields, ids as strings
      RawBooking(RUndef, RStr(<<2>>), RUndef, RStr(<<2>>), <<>>,
                 DUndef, DUndef, DIso(At(1, 14, 0)), DIso(At(1, 15, 0))),
      \* a booking that reserves the resources 1 and 2 (resourceIds array)
      RawBooking(RNum(4), RUndef, RUndef, RUndef, <<1, 2>>,
                 DIso(At(1, 14, 0)), DIso(At(1, 15, 0)), DUndef, DUndef),
      \* a booking of a resource that is not requested
      BookingOf(5, 3, At(1, 10, 0), At(1, 11, 0)),
      \* dates that are objects, not strings
      RawBooking(RNum(6), RUndef, RNum(1), RUndef, <<>>, DObject, DObject, DUndef, DUndef) }

\* answers of booking.v1.booking.list
BookingResponses ==
    { [kind |-> "error", items |-> <<>>] }
    \cup { [kind |-> "array", items |-> items] : items \in SeqsUpTo(RawBookings, MaxBookings) }
    \cup { [kind |-> k, items |-> <<BookingOf(1, 1, At(1, 10, 0), At(1, 11, 0))>>] :
              k \in { "booking", "bookings", "result" } }

\* ------------------------------------------------------------------------
\* State
\* ------------------------------------------------------------------------
VARIABLES
    pc,                \* where getAvailableSlots stands: "idle", "slotsList", "busyTime",
                       \* "bookingList" or "done"
    resourceIds,       \* argument resourceIds
    date,              \* argument date
    slotDuration,      \* argument slotDuration
    idx,               \* position of the loop of getResourceConfigs in resourceIds
    config,            \* the config getResourceConfigs is building
    configs,           \* the configs built so far
    existingBookings,  \* the result of getBookingsForDate
    result,            \* the slots getAvailableSlots resolves with
    path,              \* the return taken: "none", "empty", "normal" or "error"
    slotsLog,          \* the answers of booking.v1.resource.slots.list, per resource
    busyLog,           \* the answers of booking.v1.resourceBusyTime.list, per resource
    bookingLog,        \* the answer of booking.v1.booking.list
    previous,          \* the arguments and the result of an earlier generateSlots call
    pushed,            \* what the caller pushed onto its resourceIds array after the call
    selection,         \* booking form: state.selectedResourceIds and state.date
    outstanding,       \* booking form: the getAvailableSlots calls not yet settled
    availableSlots,    \* booking form: the slots it holds and renders
    shownFor,          \* the selection availableSlots was computed for
    issued,            \* booking form: the number of loadSlots calls so far
    selectedResourceId,\* booking form: state.selectedResourceId, NoResource for null
    slotResourceIds,   \* booking form: state.selectedSlot?.resourceIds ?? []
    afterToggle,       \* booking form: the handler that ran last is toggleResource
    bx24Loaded,        \* the host page: the BX24 SDK script is loaded (typeof BX24)
    initialized,       \* Bitrix24Api.initialized
    initPromise,       \* Bitrix24Api.initPromise: "null", "pending", "resolved", "rejected"
    sdkLog,            \* the calls of the api's methods and of the BX24 SDK, in order
    calls,             \* the calls of the api's methods: what, where it stands, its locals
    currentWeekStart,  \* weekly view: the week it shows
    weeklyBookings,    \* weekly view: the week whose bookings it holds and renders
    isLoading,         \* weekly view: a loadBookings call is under way
    inFlight,          \* the week the getWeeklyBookings call under way was made for
    subscribed,        \* weekly view: subscribeToEvents has run
    refreshTimeout,    \* weekly view: the timer refreshBookings set last
    timers,            \* the timers of the host that are set and have not run
    now,               \* the time of the host in ms
    eventTimes,        \* the times of the refresh events so far
    timerLoads,        \* the times at which a timer called loadBookings
    loadFailed,        \* a getWeeklyBookings call has been rejected
    resourceCache,     \* ResourceService.resourceCache: the resources by id
    allResourcesCache, \* ResourceService.allResourcesCache: {} for null, else { list }
    cacheTimestamp,    \* ResourceService.cacheTimestamp
    dateNow,           \* Date.now() of the host
    cacheCalls,        \* the getResources and getResource calls made, in order
    lastLoad,          \* when the list was last loaded, and the list: <<time, list>>
    saving,            \* booking form: state.saving
    saveFields,        \* booking form: what handleSave reads of the state and the options
    saves,             \* booking form: the handleSave calls that went past the guards
    clicks,            \* the handleSave calls so far: <<state.saving as the call
                       \* found it, the call went past the guards>>
    burstCreated,      \* the bookings created since state.saving last became true
    submitForm,        \* weekly view form: what handleSubmit reads of the state
    submitPc,          \* weekly view form: where handleSubmit stands
    submitAt,          \* the position of its loop in state.selectedResourceIds
    contactId,         \* its local contactId, NoContact for undefined
    createdFor,        \* the resources a booking was created for by this handleSubmit
    reported,          \* what handleSubmit reported: "none", "invalid", "failure", "success"
    submits            \* the number of handleSubmit calls so far

serviceVars == <<pc, resourceIds, date, slotDuration, idx, config, configs, existingBookings,
                 result, path, slotsLog, busyLog, bookingLog>>
replayVars == <<clock, previous, pushed>>
formVars == <<selection, outstanding, availableSlots, shownFor, issued, selectedResourceId,
              slotResourceIds, afterToggle>>

apiVars == <<bx24Loaded, initialized, initPromise, sdkLog, calls>>
viewVars == <<currentWeekStart, weeklyBookings, isLoading, inFlight, subscribed,
              refreshTimeout, timers, now, eventTimes, timerLoads, loadFailed>>
cacheVars == <<resourceCache, allResourcesCache, cacheTimestamp, dateNow, cacheCalls,
               lastLoad>>
saveVars == <<saving, saveFields, saves, clicks, burstCreated>>
submitVars == <<submitForm, submitPc, submitAt, contactId, createdFor, reported, submits>>
widgetVars == <<apiVars, viewVars, cacheVars, saveVars, submitVars>>

vars == <<serviceVars, replayVars, formVars, widgetVars>>

\* the places of the application that call the api at the same time
Callers == {1, 2}

\* a caller that has not called: <<method, position, start, allResults.length,
\* requests made>>
NoCall == <<"none", "idle", 0, 0, 0>>

\* the weekly view: the week of today, which init() sets and loads; no
\* bookings held yet; no timer set
FirstWeek == 0
NoWeek == -1
NoTimer == -1

\* ResourceService: the life of the cached list, 5 * 60 * 1000 ms
CACHE_DURATION == 300000

\* no list has been loaded
NeverLoaded == <<-1, <<>>>>

\* the booking form: state.selectedResourceId is null
NoResource == 0

\* the booking form as it opens: no slot selected, the preselected resource,
\* no phone, email or contact; the form creates a booking:
\* <<selectedSlot set, selectedResourceId set, leadPhone or leadEmail or
\* contactEntityId set, options.mode>>
EmptySaveFields == <<FALSE, TRUE, FALSE, "create">>

\* the form of the weekly view as it opens (constructor of the form): the
\* resource of the clicked cell, no slot, no name, a new contact:
\* <<selectedResourceIds, selectedSlot set, studentName set, contact>>,
\* contact "new" for isNewContact with no contact selected
EmptySubmitForm == <<<<1>>, FALSE, FALSE, "new">>

\* handleSubmit: contactId is undefined
NoContact == 0

\* the time of the host when getAvailableSlots is called: 09:00 of day 1
ClockAtCall == At(1, 9, 0)

\* the selection the booking form opens with (buildInitialState): the
\* preselected resource
InitialResourceIds == <<1>>

Init ==
    /\ pc = "idle"
    /\ resourceIds = <<>>
    /\ date = InvalidDate
    /\ slotDuration = DEFAULT_SLOT_DURATION
    /\ idx = 0
    /\ config = defaultConfig(0)
    /\ configs = <<>>
    /\ existingBookings = <<>>
    /\ result = <<>>
    /\ path = "none"
    /\ slotsLog = <<>>
    /\ busyLog = <<>>
    /\ bookingLog = <<>>
    /\ clock = ClockAtCall
    /\ previous = <<>>
    /\ pushed = <<>>
    /\ selection = <<InitialResourceIds, QueryDate>>
    /\ outstanding = {}
    /\ availableSlots = <<>>
    /\ shownFor = <<>>
    /\ issued = 0
    /\ selectedResourceId = InitialResourceIds[1]
    /\ slotResourceIds = <<>>
    /\ afterToggle = FALSE
    /\ bx24Loaded = FALSE
    /\ initialized = FALSE
    /\ initPromise = "null"
    /\ sdkLog = <<>>
    /\ calls = [c \in Callers |-> NoCall]
    /\ currentWeekStart = FirstWeek
    /\ weeklyBookings = NoWeek
    /\ isLoading = TRUE
    /\ inFlight = FirstWeek
    /\ subscribed = FALSE
    /\ refreshTimeout = NoTimer
    /\ timers = {}
    /\ now = 0
    /\ eventTimes = <<>>
    /\ timerLoads = <<>>
    /\ loadFailed = FALSE
    /\ resourceCache = {}
    /\ allResourcesCache = {}
    /\ cacheTimestamp = 0
    /\ dateNow = 2 * CACHE_DURATION
    /\ cacheCalls = <<>>
    /\ lastLoad = NeverLoaded
    /\ saving = FALSE
    /\ saveFields = EmptySaveFields
    /\ saves = <<>>
    /\ clicks = <<>>
    /\ burstCreated = 0
    /\ submitForm = EmptySubmitForm
    /\ submitPc = "form"
    /\ submitAt = 0
    /\ contactId = NoContact
    /\ createdFor = <<>>
    /\ reported = "none"
    /\ submits = 0

\* getAvailableSlots up to its first await: the empty selection returns at
\* once; formatDateForApi throws on an Invalid Date, which the catch turns
\* into the default slots
GetAvailableSlots(ids, d, duration) ==
    /\ pc = "idle"
    /\ resourceIds' = ids
    /\ date' = d
    /\ slotDuration' = duration
    /\ IF Len(ids) = 0
       THEN /\ result' = generateDefaultSlots(duration, <<>>, <<>>)
            /\ path' = "empty"
            /\ pc' = "done"
            /\ idx' = idx
       ELSE IF ~d.valid
       THEN /\ result' = generateDefaultSlots(duration, ids, <<>>)
            /\ path' = "error"
            /\ pc' = "done"
            /\ idx' = idx
       ELSE /\ pc' = "slotsList"
            /\ idx' = 1
            /\ UNCHANGED <<result, path>>
    /\ UNCHANGED <<config, configs, existingBookings, slotsLog, busyLog, bookingLog>>
    /\ UNCHANGED <<replayVars, formVars, widgetVars>>

\* the end of one iteration of `for (const resourceId of resourceIds)`
nextResourcePc(i, ids) == IF i < Len(ids) THEN "slotsList" ELSE "bookingList"

\* booking.v1.resource.slots.list answers for resourceIds[idx]
SlotsListResponse(response) ==
    /\ pc = "slotsList"
    /\ slotsLog' = Append(slotsLog, [resourceId |-> resourceIds[idx], response |-> response])
    /\ IF response.kind = "error"
       THEN /\ configs' = Append(configs, defaultConfig(resourceIds[idx]))
            /\ pc' = nextResourcePc(idx, resourceIds)
            /\ idx' = idx + 1
            /\ UNCHANGED config
       ELSE /\ config' = configFromSlots(resourceIds[idx], response)
            /\ pc' = "busyTime"
            /\ UNCHANGED <<configs, idx>>
    /\ UNCHANGED <<resourceIds, date, slotDuration, existingBookings, result, path, busyLog, bookingLog>>
    /\ UNCHANGED <<replayVars, formVars, widgetVars>>

\* booking.v1.resourceBusyTime.list answers for resourceIds[idx]
BusyTimeResponse(response) ==
    /\ pc = "busyTime"
    /\ busyLog' = Append(busyLog, [resourceId |-> resourceIds[idx], response |-> response])
    /\ configs' = Append(configs, pushBusyItems(config, busyItemsOf(response)))
    /\ config' = defaultConfig(0)
    /\ pc' = nextResourcePc(idx, resourceIds)
    /\ idx' = idx + 1
    /\ UNCHANGED <<resourceIds, date, slotDuration, existingBookings, result, path, slotsLog, bookingLog>>
    /\ UNCHANGED <<replayVars, formVars, widgetVars>>

\* booking.v1.booking.list answers; generateSlots runs and the promise resolves
BookingListResponse(response) ==
    /\ pc = "bookingList"
    /\ bookingLog' = <<response>>
    /\ existingBookings' = bookingsFrom(response)
    /\ result' = generateSlots(resourceIds, date, configs, bookingsFrom(response), slotDuration)
    /\ path' = "normal"
    /\ pc' = "done"
    /\ UNCHANGED <<resourceIds, date, slotDuration, idx, config, configs, slotsLog, busyLog>>
    /\ UNCHANGED <<replayVars, formVars, widgetVars>>

\* the caller has taken the result; the service keeps nothing of the call
Return ==
    /\ pc = "done"
    /\ pc' = "idle"
    /\ resourceIds' = <<>>
    /\ date' = InvalidDate
    /\ slotDuration' = DEFAULT_SLOT_DURATION
    /\ idx' = 0
    /\ config' = defaultConfig(0)
    /\ configs' = <<>>
    /\ existingBookings' = <<>>
    /\ result' = <<>>
    /\ path' = "none"
    /\ slotsLog' = <<>>
    /\ busyLog' = <<>>
    /\ bookingLog' = <<>>
    /\ UNCHANGED <<replayVars, formVars, widgetVars>>

Next ==
    \/ \E ids \in ResourceIdLists, d \in Dates, duration \in SlotDurations :
           GetAvailableSlots(ids, d, duration)
    \/ \E response \in SlotsResponses : SlotsListResponse(response)
    \/ \E response \in BusyResponses : BusyTimeResponse(response)
    \/ \E response \in BookingResponses : BookingListResponse(response)
    \/ Return

Spec == Init /\ [][Next]_vars

\* ------------------------------------------------------------------------
\* After the call: generateSlots called again, the caller's array changed
\* ------------------------------------------------------------------------
\* the configs ordered by workStart (insertion of c into a sorted sequence)
RECURSIVE insertByStart(_, _)
insertByStart(c, sorted) ==
    IF sorted = <<>> THEN <<c>>
    ELSE IF StrLess(c.workStart, Head(sorted).workStart) THEN <<c>> \o sorted
    ELSE <<Head(sorted)>> \o insertByStart(c, Tail(sorted))

RECURSIVE sortByStart(_)
sortByStart(cs) == IF cs = <<>> THEN <<>> ELSE insertByStart(Head(cs), sortByStart(Tail(cs)))

\* variant: generateSlots sorts the configs themselves to find the bounds
argumentsAfter_sortedInPlace(ids, d, cfgs, bookings) ==
    <<ids, d, sortByStart(cfgs), bookings>>

\* the arguments of generateSlots as the call leaves them: map and filter
\* (lines 257-258, 279-285) build new arrays, sort (259-260) reorders those
\* new arrays, new Date(date) (270) copies the date before setHours; nothing
\* is assigned to a parameter or to a member of one
argumentsAfter(ids, d, cfgs, bookings) ==
    <<ids, d, cfgs, bookings>>

\* time passes on the host after the call has resolved
Tick ==
    /\ pc = "done"
    /\ path = "normal"
    /\ pc' = "later"
    /\ clock' = clock + MinutesPerDay
    /\ UNCHANGED <<resourceIds, date, slotDuration, idx, config, configs, existingBookings,
                   result, path, slotsLog, busyLog, bookingLog, previous, pushed>>
    /\ UNCHANGED <<formVars, widgetVars>>

\* generateSlots is called once more with the arguments of the first call
CallAgain ==
    /\ pc = "later"
    /\ previous' = << <<resourceIds, date, configs, existingBookings>>, result >>
    /\ result' = generateSlots(resourceIds, date, configs, existingBookings, slotDuration)
    /\ LET after == argumentsAfter(resourceIds, date, configs, existingBookings)
       IN  /\ resourceIds' = after[1]
           /\ date' = after[2]
           /\ configs' = after[3]
           /\ existingBookings' = after[4]
    /\ pc' = "again"
    /\ UNCHANGED <<slotDuration, idx, config, path, slotsLog, busyLog, bookingLog, clock, pushed>>
    /\ UNCHANGED <<formVars, widgetVars>>

\* the caller pushes a resource id onto the array it passed as resourceIds
MutateResourceIds(id) ==
    /\ pc = "done"
    /\ pushed' = <<id>>
    /\ pc' = "mutated"
    /\ UNCHANGED <<resourceIds, date, slotDuration, idx, config, configs, existingBookings,
                   result, path, slotsLog, busyLog, bookingLog, clock, previous>>
    /\ UNCHANGED <<formVars, widgetVars>>

\* the caller's array as it is now
callerResourceIds == resourceIds \o pushed

\* the slots generateDefaultSlots returns carry its resourceIds parameter
\* itself (line 360), which on the catch path is the caller's array (line
\* 102) and for the empty selection a new array (line 84); generateSlots
\* builds a new array for every slot (line 293)
slotsShareCallerArray == path = "error"

\* the returned slots as the caller reads them now
heldSlots ==
    IF slotsShareCallerArray
    THEN [i \in DOMAIN result |-> [result[i] EXCEPT !.resourceIds = callerResourceIds]]
    ELSE result

\* the caller drops the slots
Forget ==
    /\ pc \in {"again", "mutated"}
    /\ pc' = "idle"
    /\ resourceIds' = <<>>
    /\ date' = InvalidDate
    /\ slotDuration' = DEFAULT_SLOT_DURATION
    /\ idx' = 0
    /\ config' = defaultConfig(0)
    /\ configs' = <<>>
    /\ existingBookings' = <<>>
    /\ result' = <<>>
    /\ path' = "none"
    /\ slotsLog' = <<>>
    /\ busyLog' = <<>>
    /\ bookingLog' = <<>>
    /\ clock' = ClockAtCall
    /\ previous' = <<>>
    /\ pushed' = <<>>
    /\ UNCHANGED <<formVars, widgetVars>>

ReplayNext ==
    \/ Next
    \/ Tick
    \/ CallAgain
    \/ \E id \in {3} : MutateResourceIds(id)
    \/ Forget

ReplaySpec == Init /\ [][ReplayNext]_vars

\* ------------------------------------------------------------------------
\* The caller: BookingFormComponent (components/booking-form.ts)
\* ------------------------------------------------------------------------
MaxLoads == 3    \* loadSlots calls of one form

\* the dates the date input yields: the queried day, the day after, and the
\* Invalid Date of an emptied input (new Date(''))
FormDates == { QueryDate, DateAt(At(2, 0, 0)), InvalidDate }

FormResources == {1, 2}

\* state.selectedResourceIds after toggleResource(resourceId, selected)
toggledResourceIds(ids, resourceId, selected) ==
    LET changed == IF selected
                   THEN IF resourceId \in Range(ids) THEN ids ELSE Append(ids, resourceId)
                   ELSE SelectSeq(ids, LAMBDA id : id # resourceId)
    IN  IF Len(changed) = 0 THEN <<resourceId>> ELSE changed

\* state.selectedResourceId after toggleResource left it alone
toggledResourceId_kept(ids, current) ==
    current

\* state.selectedResourceId after toggleResource, ids being the new
\* state.selectedResourceIds
toggledResourceId(ids, current) ==
    IF current = NoResource \/ current \notin Range(ids)
    THEN IF Len(ids) > 0 THEN ids[1] ELSE NoResource
    ELSE current

\* options.resources, in the order of the options
FormResourceList == <<1, 2>>

\* state.selectedResourceId after syncResourceSelect(availableResourceIds)
syncResourceSelect(ids, current, availableResourceIds) ==
    LET candidates == SelectSeq(FormResourceList, LAMBDA id : id \in Range(ids))
        filtered == IF Len(availableResourceIds) # 0
                    THEN SelectSeq(candidates, LAMBDA id : id \in Range(availableResourceIds))
                    ELSE candidates
    IN  IF Len(filtered) = 0
        THEN NoResource
        ELSE IF current # NoResource /\ current \in Range(filtered)
             THEN current
             ELSE filtered[1]

\* what getAvailableSlots resolves with for a non-empty selection when its
\* lookups fail: the slots of the fallback defaults
settledSlots(ids, d) ==
    IF d.valid
    THEN generateSlots(ids, d, [i \in DOMAIN ids |-> defaultConfig(ids[i])], <<>>,
                       DEFAULT_SLOT_DURATION)
    ELSE generateDefaultSlots(DEFAULT_SLOT_DURATION, ids, <<>>)

\* loadSlots up to its await: getAvailableSlots is called with the selection
\* sel
loadSlots(sel) ==
    /\ issued < MaxLoads
    /\ issued' = issued + 1
    /\ outstanding' = outstanding \cup { <<issued + 1, sel[1], sel[2]>> }

\* the constructor: the form opens and loads the slots of its selection
OpenForm ==
    /\ issued = 0
    /\ loadSlots(selection)
    /\ afterToggle' = FALSE
    /\ UNCHANGED <<selection, availableSlots, shownFor, selectedResourceId, slotResourceIds>>
    /\ UNCHANGED <<serviceVars, replayVars, widgetVars>>

\* the change listener of the date input
ChangeDate(d) ==
    /\ issued > 0
    /\ selection' = <<selection[1], d>>
    /\ loadSlots(<<selection[1], d>>)
    /\ afterToggle' = FALSE
    /\ UNCHANGED <<availableSlots, shownFor, selectedResourceId, slotResourceIds>>
    /\ UNCHANGED <<serviceVars, replayVars, widgetVars>>

ToggleResource(resourceId, selected) ==
    /\ issued > 0
    /\ selection' = <<toggledResourceIds(selection[1], resourceId, selected), selection[2]>>
    /\ selectedResourceId' =
           toggledResourceId(toggledResourceIds(selection[1], resourceId, selected),
                             selectedResourceId)
    /\ loadSlots(<<toggledResourceIds(selection[1], resourceId, selected), selection[2]>>)
    /\ afterToggle' = TRUE
    /\ UNCHANGED <<availableSlots, shownFor, slotResourceIds>>
    /\ UNCHANGED <<serviceVars, replayVars, widgetVars>>

\* loadSlots after its await: the call request has resolved and its slots
\* are assigned to availableSlots and rendered; syncFormState ends with
\* syncResourceSelect
SlotsSettled(request) ==
    /\ request \in outstanding
    /\ outstanding' = outstanding \ {request}
    /\ availableSlots' = settledSlots(request[2], request[3])
    /\ shownFor' = <<request[2], request[3]>>
    /\ selectedResourceId' = syncResourceSelect(selection[1], selectedResourceId,
                                                slotResourceIds)
    /\ afterToggle' = FALSE
    /\ UNCHANGED <<selection, issued, slotResourceIds>>
    /\ UNCHANGED <<serviceVars, replayVars, widgetVars>>

\* the click listener of a slot button: the slot becomes state.selectedSlot,
\* syncResourceSelect(slot.resourceIds), renderSlots and syncFormState
SelectSlot ==
    \E k \in DOMAIN availableSlots :
        /\ availableSlots[k].available
        /\ slotResourceIds' = availableSlots[k].resourceIds
        /\ selectedResourceId' =
               syncResourceSelect(selection[1],
                                  syncResourceSelect(selection[1], selectedResourceId,
                                                     availableSlots[k].resourceIds),
                                  availableSlots[k].resourceIds)
        /\ afterToggle' = FALSE
        /\ UNCHANGED <<selection, outstanding, availableSlots, shownFor, issued>>
        /\ UNCHANGED <<serviceVars, replayVars, widgetVars>>

\* the change listener of the resource select: the value of the option,
\* null for the empty one, then syncFormState
PickResource(value) ==
    /\ issued > 0
    /\ selectedResourceId' = syncResourceSelect(selection[1], value, slotResourceIds)
    /\ afterToggle' = FALSE
    /\ UNCHANGED <<selection, outstanding, availableSlots, shownFor, issued, slotResourceIds>>
    /\ UNCHANGED <<serviceVars, replayVars, widgetVars>>

FormNext ==
    \/ OpenForm
    \/ \E d \in FormDates : ChangeDate(d)
    \/ \E r \in FormResources, selected \in BOOLEAN : ToggleResource(r, selected)
    \/ \E request \in outstanding : SlotsSettled(request)
    \/ SelectSlot
    \/ \E value \in FormResources \cup {NoResource} : PickResource(value)

FormSpec == Init /\ [][FormNext]_vars

\* ------------------------------------------------------------------------
\* The SDK bridge: Bitrix24Api (services/bitrix24Api.ts)
\* ------------------------------------------------------------------------
MaxRequests == 3    \* BX24.callMethod requests of one api call

safetyLimit == 10000

ApiMethods == { "init", "callMethod", "callBatch", "fetchAll" }

\* the lengths of the lists the server answers with
PageSizes == { 0, 5000 }

\* the distance of the next page the server names
PageStep == 50

\* what the server answers to a request: an error, a bare array, or
\* { result, next } where next is absent, the start of the request itself or
\* the start of the page after it
ServerAnswers ==
    { <<"error">> }
    \cup { <<"array", n>> : n \in PageSizes }
    \cup { <<"page", n, next>> : n \in PageSizes, next \in { "absent", "same", "further" } }

\* the answer as the callback receives it for a request made with start =
\* startv: next as a number, 0 when absent
received(answer, startv) ==
    IF answer[1] = "page"
    THEN <<"page", answer[2], CASE answer[3] = "absent" -> 0
                                [] answer[3] = "same" -> startv
                                [] OTHER -> startv + PageStep>>
    ELSE answer

methodOf(c) == calls[c][1]
positionOf(c) == calls[c][2]
startOf(c) == calls[c][3]
collectedOf(c) == calls[c][4]
requestsOf(c) == calls[c][5]

\* init() without the check of initPromise
init_noPromiseCheck(inited, promise, loaded) ==
    IF inited THEN <<promise, <<>>>>
    ELSE IF ~loaded THEN <<"rejected", <<>>>>
    ELSE <<"pending", << <<"BX24.init">> >> >>

\* init(), the synchronous part: the value of initPromise after it and the
\* SDK calls it makes
init(inited, promise, loaded) ==
    IF inited THEN <<promise, <<>>>>
    ELSE IF promise # "null" THEN <<promise, <<>>>>
    ELSE IF ~loaded THEN <<"rejected", <<>>>>
    ELSE <<"pending", << <<"BX24.init">> >> >>

\* one round of the loop of fetchAll after the answer: <<go on, start,
\* allResults.length>>
fetchAllRound(startv, collected, answer) ==
    IF answer[1] = "array"
    THEN <<FALSE, startv, collected + answer[2]>>
    ELSE LET all == collected + answer[2]
             next == answer[3]
         IN  IF next = 0 \/ next <= startv
             THEN <<FALSE, startv, all>>
             ELSE <<all < safetyLimit, next, all>>

\* the script of the SDK arrives in the page
LoadSdk ==
    /\ ~bx24Loaded
    /\ bx24Loaded' = TRUE
    /\ UNCHANGED <<initialized, initPromise, sdkLog, calls>>
    /\ UNCHANGED <<serviceVars, replayVars, formVars, viewVars, cacheVars, saveVars, submitVars>>

\* a caller calls init, callMethod, callBatch or fetchAll: each runs init()
\* and waits for it
Invoke(c, method) ==
    /\ positionOf(c) = "idle"
    /\ LET after == init(initialized, initPromise, bx24Loaded)
       IN  /\ initPromise' = after[1]
           /\ sdkLog' = (sdkLog \o << <<"invoke", c>> >>) \o after[2]
    /\ calls' = [calls EXCEPT ![c] = <<method, "awaitInit", 0, 0, 0>>]
    /\ UNCHANGED <<bx24Loaded, initialized>>
    /\ UNCHANGED <<serviceVars, replayVars, formVars, viewVars, cacheVars, saveVars, submitVars>>

\* the SDK calls the callback given to BX24.init
InitCallback ==
    /\ Cardinality({ i \in DOMAIN sdkLog : sdkLog[i] = <<"BX24.init">> })
           > Cardinality({ i \in DOMAIN sdkLog : sdkLog[i] = <<"initCallback">> })
    /\ initialized' = TRUE
    /\ initPromise' = "resolved"
    /\ sdkLog' = Append(sdkLog, <<"initCallback">>)
    /\ UNCHANGED <<bx24Loaded, calls>>
    /\ UNCHANGED <<serviceVars, replayVars, formVars, viewVars, cacheVars, saveVars, submitVars>>

\* the caller goes on after await this.init(): a rejection ends the call;
\* init has nothing more to do, callMethod and callBatch call the SDK,
\* fetchAll enters its loop and calls this.callMethod, which runs init()
\* again and waits for it
AfterInit(c) ==
    /\ positionOf(c) = "awaitInit"
    /\ initialized \/ initPromise \in { "resolved", "rejected" }
    /\ IF ~initialized /\ initPromise = "rejected"
       THEN /\ calls' = [calls EXCEPT ![c][2] = "failed"]
            /\ UNCHANGED <<initPromise, sdkLog>>
       ELSE CASE methodOf(c) = "init" ->
                    /\ calls' = [calls EXCEPT ![c][2] = "done"]
                    /\ UNCHANGED <<initPromise, sdkLog>>
              [] methodOf(c) = "callMethod" ->
                    /\ calls' = [calls EXCEPT ![c] = <<"callMethod", "awaitCall", 0, 0, 1>>]
                    /\ sdkLog' = Append(sdkLog, <<"BX24.callMethod", c, 0, 0>>)
                    /\ UNCHANGED initPromise
              [] methodOf(c) = "callBatch" ->
                    /\ calls' = [calls EXCEPT ![c] = <<"callBatch", "awaitCall", 0, 0, 1>>]
                    /\ sdkLog' = Append(sdkLog, <<"BX24.callBatch", c>>)
                    /\ UNCHANGED initPromise
              [] methodOf(c) = "fetchAll" ->
                    LET after == init(initialized, initPromise, bx24Loaded)
                    IN  /\ initPromise' = after[1]
                        /\ sdkLog' = sdkLog \o after[2]
                        /\ calls' = [calls EXCEPT ![c][2] = "awaitInnerInit"]
    /\ UNCHANGED <<bx24Loaded, initialized>>
    /\ UNCHANGED <<serviceVars, replayVars, formVars, viewVars, cacheVars, saveVars, submitVars>>

\* this.callMethod inside fetchAll after its await this.init(): the request
\* with the current start
RequestPage(c) ==
    /\ positionOf(c) = "awaitInnerInit"
    /\ initialized \/ initPromise \in { "resolved", "rejected" }
    /\ requestsOf(c) < MaxRequests
    /\ IF ~initialized /\ initPromise = "rejected"
       THEN /\ calls' = [calls EXCEPT ![c][2] = "failed"]
            /\ UNCHANGED sdkLog
       ELSE /\ calls' = [calls EXCEPT ![c][2] = "awaitCall", ![c][5] = @ + 1]
            /\ sdkLog' = Append(sdkLog, <<"BX24.callMethod", c, startOf(c), collectedOf(c)>>)
    /\ UNCHANGED <<bx24Loaded, initialized, initPromise>>
    /\ UNCHANGED <<serviceVars, replayVars, formVars, viewVars, cacheVars, saveVars, submitVars>>

\* the SDK calls the callback of BX24.callMethod or BX24.callBatch: an error
\* rejects (callBatch resolves all the same, haltOnError being false);
\* fetchAll takes the page and either ends or asks for the next one
Answer(c, answer) ==
    /\ positionOf(c) = "awaitCall"
    /\ CASE methodOf(c) = "fetchAll" ->
                IF answer[1] = "error"
                THEN /\ calls' = [calls EXCEPT ![c][2] = "failed"]
                     /\ UNCHANGED initPromise
                ELSE LET round == fetchAllRound(startOf(c), collectedOf(c),
                                                received(answer, startOf(c)))
                         after == init(initialized, initPromise, bx24Loaded)
                     IN  IF round[1]
                         THEN /\ calls' = [calls EXCEPT ![c][2] = "awaitInnerInit",
                                                        ![c][3] = round[2],
                                                        ![c][4] = round[3]]
                              /\ initPromise' = after[1]
                         ELSE /\ calls' = [calls EXCEPT ![c][2] = "done",
                                                        ![c][3] = round[2],
                                                        ![c][4] = round[3]]
                              /\ UNCHANGED initPromise
          [] methodOf(c) = "callBatch" ->
                /\ calls' = [calls EXCEPT ![c][2] = "done"]
                /\ UNCHANGED initPromise
          [] OTHER ->
                /\ calls' = [calls EXCEPT ![c][2] = IF answer[1] = "error" THEN "failed"
                                                    ELSE "done"]
                /\ UNCHANGED initPromise
    /\ UNCHANGED <<bx24Loaded, initialized, sdkLog>>
    /\ UNCHANGED <<serviceVars, replayVars, formVars, viewVars, cacheVars, saveVars, submitVars>>

ApiNext ==
    \/ LoadSdk
    \/ \E c \in Callers, method \in ApiMethods : Invoke(c, method)
    \/ InitCallback
    \/ \E c \in Callers : AfterInit(c)
    \/ \E c \in Callers : RequestPage(c)
    \/ \E c \in Callers, answer \in ServerAnswers : Answer(c, answer)

ApiSpec == Init /\ [][ApiNext]_vars

\* ------------------------------------------------------------------------
\* The weekly view: WeeklyViewComponent (components/weekly-view.ts)
\* ------------------------------------------------------------------------
MaxTicks == 6     \* the time the host is followed for, in steps of TickMs
MaxEvents == 3    \* refresh events

\* the step of the time of the host
TickMs == 250

\* the delay of the timer of refreshBookings
refreshDelay == 500

\* the weeks the navigation can ask for
Weeks == { 0, 1, 2 }

\* refreshBookings without clearTimeout
refreshBookings_noClear(timeout, pending, nowv) ==
    <<nowv + refreshDelay, pending \cup { nowv + refreshDelay }>>

\* refreshBookings: <<refreshTimeout, the timers of the host>> after it; a
\* timer is named by the time it is due
refreshBookings(timeout, pending, nowv) ==
    LET cleared == IF timeout # NoTimer THEN pending \ { timeout } ELSE pending
    IN  <<nowv + refreshDelay, cleared \cup { nowv + refreshDelay }>>

\* loadBookings up to its await: nothing while a load is under way; else
\* getWeeklyBookings is called for the current week
loadBookings(week) ==
    IF isLoading
    THEN UNCHANGED <<isLoading, inFlight>>
    ELSE /\ isLoading' = TRUE
         /\ inFlight' = week

\* the navigation reports a week: handleWeekChange
HandleWeekChange(week) ==
    /\ currentWeekStart' = week
    /\ loadBookings(week)
    /\ UNCHANGED <<weeklyBookings, subscribed, refreshTimeout, timers, now, eventTimes,
                   timerLoads, loadFailed>>
    /\ UNCHANGED <<serviceVars, replayVars, formVars, apiVars, cacheVars, saveVars, submitVars>>

\* loadBookings after its await: the bookings are assigned and rendered, or
\* the rejection is logged; isLoading is reset either way. The first load is
\* the one init() waits for before subscribeToEvents
BookingsSettled(ok) ==
    /\ inFlight # NoWeek
    /\ weeklyBookings' = IF ok THEN inFlight ELSE weeklyBookings
    /\ loadFailed' = (loadFailed \/ ~ok)
    /\ isLoading' = FALSE
    /\ inFlight' = NoWeek
    /\ subscribed' = TRUE
    /\ UNCHANGED <<currentWeekStart, refreshTimeout, timers, now, eventTimes, timerLoads>>
    /\ UNCHANGED <<serviceVars, replayVars, formVars, apiVars, cacheVars, saveVars, submitVars>>

\* a booking was created, updated or deleted, or the side panel closed:
\* refreshBookings. A timer that is due runs before the event is delivered
RefreshEvent ==
    /\ subscribed
    /\ Len(eventTimes) < MaxEvents
    /\ \A t \in timers : t > now
    /\ LET after == refreshBookings(refreshTimeout, timers, now)
       IN  /\ refreshTimeout' = after[1]
           /\ timers' = after[2]
    /\ eventTimes' = Append(eventTimes, now)
    /\ UNCHANGED <<currentWeekStart, weeklyBookings, isLoading, inFlight, subscribed, now,
                   timerLoads, loadFailed>>
    /\ UNCHANGED <<serviceVars, replayVars, formVars, apiVars, cacheVars, saveVars, submitVars>>

\* a timer set by refreshBookings is due: its callback calls loadBookings
TimerFires ==
    \E t \in timers :
        /\ t <= now
        /\ timers' = timers \ { t }
        /\ timerLoads' = Append(timerLoads, now)
        /\ loadBookings(currentWeekStart)
        /\ UNCHANGED <<currentWeekStart, weeklyBookings, subscribed, refreshTimeout, now,
                       eventTimes, loadFailed>>
        /\ UNCHANGED <<serviceVars, replayVars, formVars, apiVars, cacheVars, saveVars, submitVars>>

\* time passes, up to the next timer
TimePasses ==
    /\ now < MaxTicks * TickMs
    /\ \A t \in timers : t > now
    /\ now' = now + TickMs
    /\ UNCHANGED <<currentWeekStart, weeklyBookings, isLoading, inFlight, subscribed,
                   refreshTimeout, timers, eventTimes, timerLoads, loadFailed>>
    /\ UNCHANGED <<serviceVars, replayVars, formVars, apiVars, cacheVars, saveVars, submitVars>>

ViewNext ==
    \/ \E week \in Weeks : HandleWeekChange(week)
    \/ \E ok \in BOOLEAN : BookingsSettled(ok)
    \/ RefreshEvent
    \/ TimerFires
    \/ TimePasses

ViewSpec == Init /\ [][ViewNext]_vars

\* ------------------------------------------------------------------------
\* The resources: ResourceService (api/resource.service.ts,
\* services/resourceService.ts)
\* ------------------------------------------------------------------------
MaxCacheCalls == 2    \* getResources and getResource calls
MaxCacheTicks == 2    \* the time the host is followed for, in steps of CacheTickMs

\* the step of Date.now(): half the life of the cache
CacheTickMs == 150000

\* a resource is <<id, where it comes from>>; the lists that
\* booking.v1.resource.list and user.get answer with
ApiLists == { <<>>, << <<1, "resource">>, <<2, "resource">> >> }
UserLists == { <<>>, << <<1, "user">> >>, << <<3, "user">> >> }

ResourceKeys == { 1, 2, 3 }

\* what getResource resolves with when the resource is not known: null
NullResource == <<0, "null">>

\* Map.has, Map.get (?? null) and Map.set on resourceCache
cacheHas(cache, id) == \E r \in cache : r[1] = id
cacheGet(cache, id) ==
    IF cacheHas(cache, id) THEN CHOOSE r \in cache : r[1] = id ELSE NullResource
cacheSet(cache, list) ==
    { r \in cache : \A i \in DOMAIN list : list[i][1] # r[1] }
    \cup { list[i] : i \in { j \in DOMAIN list :
                               \A k \in DOMAIN list : k > j => list[k][1] # list[j][1] } }

\* the test of getResources without forceRefresh
cacheIsFresh_ignoresForce(forceRefresh, cached, nowv, stamp) ==
    cached # {} /\ (nowv - stamp) < CACHE_DURATION

\* the test at the head of getResources: the cached list is returned
cacheIsFresh(forceRefresh, cached, nowv, stamp) ==
    ~forceRefresh /\ cached # {} /\ (nowv - stamp) < CACHE_DURATION

\* the fields of a call: <<method, argument, now, position, resolved value,
\* requests made, what was last loaded when the call was made>>
NewCall(method, arg, position, value, requests) ==
    <<method, arg, dateNow, position, value, requests, lastLoad>>

\* the call at place i resolves, its getResources having resolved with list:
\* getResources resolves with list, getResource with resourceCache.get(id) ??
\* null
Resolve(i, list, cache) ==
    cacheCalls' = [cacheCalls EXCEPT ![i][4] = "done",
                                     ![i][5] = IF cacheCalls[i][1] = "getResources"
                                               THEN list
                                               ELSE cacheGet(cache, cacheCalls[i][2])]

\* getResources(forceRefresh) up to its first await
GetResources(forceRefresh) ==
    /\ Len(cacheCalls) < MaxCacheCalls
    /\ IF cacheIsFresh(forceRefresh, allResourcesCache, dateNow, cacheTimestamp)
       THEN LET list == CHOOSE l \in allResourcesCache : TRUE
            IN  cacheCalls' = Append(cacheCalls,
                                     NewCall("getResources", forceRefresh, "done", list, 0))
       ELSE cacheCalls' = Append(cacheCalls,
                                 NewCall("getResources", forceRefresh, "awaitList", <<>>, 1))
    /\ UNCHANGED <<resourceCache, allResourcesCache, cacheTimestamp, dateNow, lastLoad>>
    /\ UNCHANGED <<serviceVars, replayVars, formVars, apiVars, viewVars, saveVars, submitVars>>

\* getResource(resourceId) up to its first await: answered from resourceCache,
\* or by way of getResources()
GetResource(resourceId) ==
    /\ Len(cacheCalls) < MaxCacheCalls
    /\ IF \/ cacheHas(resourceCache, resourceId)
          \/ cacheIsFresh(FALSE, allResourcesCache, dateNow, cacheTimestamp)
       THEN cacheCalls' = Append(cacheCalls,
                                 NewCall("getResource", resourceId, "done",
                                         cacheGet(resourceCache, resourceId), 0))
       ELSE cacheCalls' = Append(cacheCalls,
                                 NewCall("getResource", resourceId, "awaitList",
                                         NullResource, 1))
    /\ UNCHANGED <<resourceCache, allResourcesCache, cacheTimestamp, dateNow, lastLoad>>
    /\ UNCHANGED <<serviceVars, replayVars, formVars, apiVars, viewVars, saveVars, submitVars>>

\* booking.v1.resource.list has answered the call at place i: a list that is
\* not empty is cached, in both caches, with the time the call began at;
\* an empty list or an error leads to getUsersAsResources
ResourceListAnswer(i, ok, list) ==
    /\ i \in DOMAIN cacheCalls
    /\ cacheCalls[i][4] = "awaitList"
    /\ IF ok /\ Len(list) > 0
       THEN /\ allResourcesCache' = { list }
            /\ cacheTimestamp' = cacheCalls[i][3]
            /\ resourceCache' = cacheSet(resourceCache, list)
            /\ lastLoad' = <<dateNow, list>>
            /\ Resolve(i, list, cacheSet(resourceCache, list))
       ELSE /\ cacheCalls' = [cacheCalls EXCEPT ![i][4] = "awaitUsers", ![i][6] = @ + 1]
            /\ UNCHANGED <<allResourcesCache, cacheTimestamp, resourceCache, lastLoad>>
    /\ UNCHANGED dateNow
    /\ UNCHANGED <<serviceVars, replayVars, formVars, apiVars, viewVars, saveVars, submitVars>>

\* user.get has answered the call at place i: the users become the cached
\* list, with the time of the answer; an error resolves with []
UsersAnswer(i, ok, list) ==
    /\ i \in DOMAIN cacheCalls
    /\ cacheCalls[i][4] = "awaitUsers"
    /\ IF ok
       THEN /\ allResourcesCache' = { list }
            /\ cacheTimestamp' = dateNow
            /\ lastLoad' = <<dateNow, list>>
            /\ Resolve(i, list, resourceCache)
       ELSE /\ Resolve(i, <<>>, resourceCache)
            /\ UNCHANGED <<allResourcesCache, cacheTimestamp, lastLoad>>
    /\ UNCHANGED <<resourceCache, dateNow>>
    /\ UNCHANGED <<serviceVars, replayVars, formVars, apiVars, viewVars, saveVars, submitVars>>

\* clearCache
ClearCache ==
    /\ resourceCache # {} \/ allResourcesCache # {}
    /\ resourceCache' = {}
    /\ allResourcesCache' = {}
    /\ cacheTimestamp' = 0
    /\ lastLoad' = NeverLoaded
    /\ UNCHANGED <<dateNow, cacheCalls>>
    /\ UNCHANGED <<serviceVars, replayVars, formVars, apiVars, viewVars, saveVars, submitVars>>

\* time passes; the requests are answered within one step
CacheTimePasses ==
    /\ dateNow < 2 * CACHE_DURATION + MaxCacheTicks * CacheTickMs
    /\ \A i \in DOMAIN cacheCalls : cacheCalls[i][4] = "done"
    /\ dateNow' = dateNow + CacheTickMs
    /\ UNCHANGED <<resourceCache, allResourcesCache, cacheTimestamp, cacheCalls, lastLoad>>
    /\ UNCHANGED <<serviceVars, replayVars, formVars, apiVars, viewVars, saveVars, submitVars>>

CacheNext ==
    \/ \E forceRefresh \in BOOLEAN : GetResources(forceRefresh)
    \/ \E resourceId \in ResourceKeys : GetResource(resourceId)
    \/ \E i \in 1 .. MaxCacheCalls, ok \in BOOLEAN, list \in ApiLists :
           ResourceListAnswer(i, ok, list)
    \/ \E i \in 1 .. MaxCacheCalls, ok \in BOOLEAN, list \in UserLists :
           UsersAnswer(i, ok, list)
    \/ ClearCache
    \/ CacheTimePasses

CacheSpec == Init /\ [][CacheNext]_vars

\* ------------------------------------------------------------------------
\* Saving a booking: BookingFormComponent.handleSave
\* (components/booking-form.ts)
\* ------------------------------------------------------------------------
MaxClicks == 3    \* handleSave calls of one form

\* what handleSave reads: <<selectedSlot set, selectedResourceId set,
\* leadPhone or leadEmail or contactEntityId set, options.mode>>
SaveForms == BOOLEAN \X BOOLEAN \X BOOLEAN \X {"create", "edit"}

\* the guards of handleSave without the test of state.saving
saveStarts_whileSaving(savingv, fields) ==
    fields[1] /\ fields[2] /\ fields[3]

\* the guards of handleSave: the call goes on to save
saveStarts(savingv, fields) ==
    /\ ~savingv
    /\ fields[1] /\ fields[2]
    /\ fields[3]

\* a save: <<where it stands, options.mode, resolveClient gave a client>>
saveAt(i) == saves[i][1]

SavesInFlight == { i \in DOMAIN saves : saveAt(i) \notin {"saved", "failed"} }

\* the catch or the end of the try, then the finally of handleSave
finishSave(i, ok) ==
    /\ saves' = [saves EXCEPT ![i][1] = IF ok THEN "saved" ELSE "failed"]
    /\ saving' = FALSE

\* the fields of the form and the selection change
EditSaveForm(fields) ==
    /\ fields # saveFields
    /\ saveFields' = fields
    /\ UNCHANGED <<saving, saves, clicks, burstCreated>>
    /\ UNCHANGED <<serviceVars, replayVars, formVars, apiVars, viewVars, cacheVars,
                   submitVars>>

\* handleSave up to its first await: the guards, state.saving = true and
\* the call of resolveClient
HandleSave ==
    /\ Len(clicks) < MaxClicks
    /\ clicks' = Append(clicks, <<saving, saveStarts(saving, saveFields)>>)
    /\ IF saveStarts(saving, saveFields)
       THEN /\ saving' = TRUE
            /\ saves' = Append(saves, <<"resolveClient", saveFields[4], FALSE>>)
            /\ burstCreated' = IF saving THEN burstCreated ELSE 0
       ELSE UNCHANGED <<saving, saves, burstCreated>>
    /\ UNCHANGED saveFields
    /\ UNCHANGED <<serviceVars, replayVars, formVars, apiVars, viewVars, cacheVars,
                   submitVars>>

\* resolveClient settles: with a client or with null, or it throws; the
\* save goes on to updateBookingViaApi or createBookingViaApi
ClientResolved(i, ok, client) ==
    /\ i \in DOMAIN saves
    /\ saveAt(i) = "resolveClient"
    /\ IF ok
       THEN /\ saves' = [saves EXCEPT ![i][1] = IF saves[i][2] = "edit" THEN "update"
                                                 ELSE "create",
                                      ![i][3] = client]
            /\ UNCHANGED saving
       ELSE finishSave(i, FALSE)
    /\ UNCHANGED <<saveFields, clicks, burstCreated>>
    /\ UNCHANGED <<serviceVars, replayVars, formVars, apiVars, viewVars, cacheVars,
                   submitVars>>

\* createBookingViaApi settles: with a booking (created.id), with null, or
\* it throws; updateBookingViaApi settles or throws
BookingSaved(i, ok, id) ==
    /\ i \in DOMAIN saves
    /\ saveAt(i) \in {"create", "update"}
    /\ burstCreated' = IF ok /\ id /\ saveAt(i) = "create" THEN burstCreated + 1
                       ELSE burstCreated
    /\ IF ~ok
       THEN finishSave(i, FALSE)
       ELSE IF saves[i][3] /\ (saveAt(i) = "update" \/ id)
            THEN /\ saves' = [saves EXCEPT ![i][1] = "setClient"]
                 /\ UNCHANGED saving
            ELSE finishSave(i, TRUE)
    /\ UNCHANGED <<saveFields, clicks>>
    /\ UNCHANGED <<serviceVars, replayVars, formVars, apiVars, viewVars, cacheVars,
                   submitVars>>

\* setBookingClient settles or throws
ClientSet(i, ok) ==
    /\ i \in DOMAIN saves
    /\ saveAt(i) = "setClient"
    /\ finishSave(i, ok)
    /\ UNCHANGED <<saveFields, clicks, burstCreated>>
    /\ UNCHANGED <<serviceVars, replayVars, formVars, apiVars, viewVars, cacheVars,
                   submitVars>>

SaveNext ==
    \/ \E fields \in SaveForms : EditSaveForm(fields)
    \/ HandleSave
    \/ \E i \in 1 .. MaxClicks, ok \in BOOLEAN, client \in BOOLEAN : ClientResolved(i, ok, client)
    \/ \E i \in 1 .. MaxClicks, ok \in BOOLEAN, id \in BOOLEAN : BookingSaved(i, ok, id)
    \/ \E i \in 1 .. MaxClicks, ok \in BOOLEAN : ClientSet(i, ok)

SaveSpec == Init /\ [][SaveNext]_vars

\* ------------------------------------------------------------------------
\* Creating the bookings of the form of the weekly view:
\* BookingFormComponent.handleSubmit (components/weekly-view.ts)
\* ------------------------------------------------------------------------
MaxSubmits == 2    \* handleSubmit calls of one form

\* the id of the contact picked from the suggestions, and the id
\* contactService.createContact answers with
PickedContact == 1
CreatedContact == 2

\* what handleSubmit reads: <<selectedResourceIds, selectedSlot set,
\* studentName not blank, contact>>; contact is "new" (isNewContact, none
\* picked), "picked" (a contact picked, phone and email as it has them) or
\* "changed" (a contact picked, phone or email typed over)
SubmitForms == {<<>>, <<1>>, <<1, 2>>} \X BOOLEAN \X BOOLEAN \X {"new", "picked", "changed"}

validateForm(form) ==
    /\ Len(form[1]) # 0
    /\ form[2]
    /\ form[3]

\* the body of the loop is done for the resource at submitAt: the next
\* resource, or close() and onSuccess
submitGoesOn ==
    IF submitAt = Len(submitForm[1])
    THEN /\ submitPc' = "closed"
         /\ reported' = "success"
         /\ UNCHANGED submitAt
    ELSE /\ submitPc' = "creating"
         /\ submitAt' = submitAt + 1
         /\ UNCHANGED reported

\* the catch: the alert 'Failed to create booking. Please try again.' and
\* the button enabled again
submitFails ==
    /\ submitPc' = "form"
    /\ reported' = "failure"
    /\ UNCHANGED submitAt

\* the inputs of the form change while no submit is under way
EditSubmitForm(form) ==
    /\ submitPc = "form"
    /\ form # submitForm
    /\ submitForm' = form
    /\ UNCHANGED <<submitPc, submitAt, contactId, createdFor, reported, submits>>
    /\ UNCHANGED <<serviceVars, replayVars, formVars, apiVars, viewVars, cacheVars,
                   saveVars>>

\* handleSubmit up to its first await
HandleSubmit ==
    /\ submitPc = "form"
    /\ submits < MaxSubmits
    /\ submits' = submits + 1
    /\ IF ~validateForm(submitForm)
       THEN /\ reported' = "invalid"
            /\ UNCHANGED <<submitPc, submitAt, contactId, createdFor>>
       ELSE /\ reported' = "none"
            /\ createdFor' = <<>>
            /\ contactId' = IF submitForm[4] = "new" THEN NoContact ELSE PickedContact
            /\ submitPc' = CASE submitForm[4] = "new" -> "createContact"
                              [] submitForm[4] = "changed" -> "updateContact"
                              [] OTHER -> "creating"
            /\ submitAt' = IF submitForm[4] = "picked" THEN 1 ELSE 0
    /\ UNCHANGED submitForm
    /\ UNCHANGED <<serviceVars, replayVars, formVars, apiVars, viewVars, cacheVars,
                   saveVars>>

\* contactService.createContact or updateContact settles: with a contact,
\* with null, or it throws
ContactSettled(ok, contact) ==
    /\ submitPc \in {"createContact", "updateContact"}
    /\ IF ok
       THEN /\ contactId' = IF submitPc = "createContact" /\ contact THEN CreatedContact
                             ELSE contactId
            /\ submitPc' = "creating"
            /\ submitAt' = 1
            /\ UNCHANGED reported
       ELSE /\ submitFails
            /\ UNCHANGED contactId
    /\ UNCHANGED <<submitForm, createdFor, submits>>
    /\ UNCHANGED <<serviceVars, replayVars, formVars, apiVars, viewVars, cacheVars,
                   saveVars>>

\* createBookingViaApi settles for the resource at submitAt: with a booking
\* ("booking"), with null for an answer that names no booking ("null"), or
\* it throws ("throw")
BookingCreated(outcome) ==
    /\ submitPc = "creating"
    /\ createdFor' = IF outcome = "booking" THEN Append(createdFor, submitForm[1][submitAt])
                     ELSE createdFor
    /\ CASE outcome = "throw" -> submitFails
         [] outcome = "booking" /\ contactId # NoContact ->
                /\ submitPc' = "linking"
                /\ UNCHANGED <<submitAt, reported>>
         [] OTHER -> submitGoesOn
    /\ UNCHANGED <<submitForm, contactId, submits>>
    /\ UNCHANGED <<serviceVars, replayVars, formVars, apiVars, viewVars, cacheVars,
                   saveVars>>

\* linkContactToBooking settles: it catches what setBookingClient throws
ContactLinked(ok) ==
    /\ submitPc = "linking"
    /\ submitGoesOn
    /\ UNCHANGED <<submitForm, contactId, createdFor, submits>>
    /\ UNCHANGED <<serviceVars, replayVars, formVars, apiVars, viewVars, cacheVars,
                   saveVars>>

SubmitNext ==
    \/ \E form \in SubmitForms : EditSubmitForm(form)
    \/ HandleSubmit
    \/ \E ok \in BOOLEAN, contact \in BOOLEAN : ContactSettled(ok, contact)
    \/ \E outcome \in {"booking", "null", "throw"} : BookingCreated(outcome)
    \/ \E ok \in BOOLEAN : ContactLinked(ok)

SubmitSpec == Init /\ [][SubmitNext]_vars

\* ------------------------------------------------------------------------
\* Vocabulary of the properties: times as minutes of the day, read
\* independently of the operators of the model
\* ------------------------------------------------------------------------
\* the call has resolved
Done == pc = "done"

\* the call has resolved with the slots generateSlots computed
NormalDone == pc = "done" /\ path = "normal"

\* the minute of the day an HH:MM text denotes
TextMinutes(s) == (s[1] * 10 + s[2]) * 60 + s[4] * 10 + s[5]

\* the slot result[i] as minutes of the day
SlotFrom(i) == TextMinutes(result[i].startTime)
SlotTo(i) == TextMinutes(result[i].endTime)

\* midnight of the queried day
DayBase == date.t - (date.t % MinutesPerDay)

Requested == Range(resourceIds)

\* the config the pipeline built for the requested resource r
ConfigOf(r) == configs[CHOOSE i \in DOMAIN configs : configs[i].resourceId = r]

WindowStart(r) == TextMinutes(ConfigOf(r).workStart)
WindowEnd(r) == TextMinutes(ConfigOf(r).workEnd)

MinOf(S) == CHOOSE x \in S : \A y \in S : x <= y
MaxOf(S) == CHOOSE x \in S : \A y \in S : y <= x

\* the union window of the requested resources
UnionStart == MinOf({ WindowStart(r) : r \in Requested })
UnionEnd == MaxOf({ WindowEnd(r) : r \in Requested })

\* half-open intervals [a, b) and [c, d) overlap
HalfOpenOverlap(a, b, c, d) == a < d /\ c < b

\* the existing booking k has a start and an end instant
BookingTimed(k) == existingBookings[k].dateFrom.kind = "iso" /\ existingBookings[k].dateTo.kind = "iso"

\* the slot result[i] overlaps a blocked interval of r
SlotBlockedFor(i, r) ==
    \E j \in DOMAIN ConfigOf(r).blockedSlots :
        HalfOpenOverlap(SlotFrom(i), SlotTo(i),
                        TextMinutes(ConfigOf(r).blockedSlots[j].start),
                        TextMinutes(ConfigOf(r).blockedSlots[j].end))

\* the slot result[i] overlaps an existing booking of r
SlotBookedFor(i, r) ==
    \E k \in DOMAIN existingBookings :
        /\ existingBookings[k].resourceId = r
        /\ BookingTimed(k)
        /\ HalfOpenOverlap(DayBase + SlotFrom(i), DayBase + SlotTo(i),
                           existingBookings[k].dateFrom.at, existingBookings[k].dateTo.at)

SlotInWindowOf(i, r) == WindowStart(r) <= SlotFrom(i) /\ SlotTo(i) <= WindowEnd(r)

\* C1: in every slot generateSlots returns, a requested resource r is among
\* the slot's resourceIds exactly when the slot lies within r's working
\* window, overlaps none of r's blocked intervals and overlaps no existing
\* booking of r.
C1_AvailabilityIff ==
    NormalDone =>
        \A i \in DOMAIN result : \A r \in Requested :
            (r \in Range(result[i].resourceIds))
                <=> (SlotInWindowOf(i, r) /\ ~SlotBlockedFor(i, r) /\ ~SlotBookedFor(i, r))

\* C1 witness: one result in which a resource is left out of one slot by its
\* window, of another by a blocked interval, of a third by a booking, and is
\* free in a fourth.
C1_Witness ==
    /\ NormalDone
    /\ \E r \in Requested :
        /\ \E i \in DOMAIN result : ~SlotInWindowOf(i, r)
        /\ \E i \in DOMAIN result : SlotInWindowOf(i, r) /\ SlotBlockedFor(i, r)
        /\ \E i \in DOMAIN result : SlotInWindowOf(i, r) /\ ~SlotBlockedFor(i, r) /\ SlotBookedFor(i, r)
        /\ \E i \in DOMAIN result : r \in Range(result[i].resourceIds)

\* the fallback working window, in minutes of the day
FallbackStart == 8 * 60
FallbackEnd == 20 * 60

\* the answer booking.v1.resource.slots.list gave for the requested resource r
SlotsAnswer(r) == slotsLog[CHOOSE i \in DOMAIN slotsLog : slotsLog[i].resourceId = r].response

\* the value v is a time of day: an HH:MM or HH:MM:SS text, an object holding
\* one, or an object holding a timestamp
GivesTime(v) == v.kind \in { "string", "objFormatted", "objTimestamp" }

TimeGiven(v) == IF v.kind = "objTimestamp" THEN (v.n \div 60) % MinutesPerDay ELSE TextMinutes(v.s)

\* the working window the resource configuration collaborator supplied for r,
\* the fallback where it supplied none
SuppliedStart(r) ==
    LET a == SlotsAnswer(r)
        given == IF a.hasSlots THEN { i \in DOMAIN a.slots : GivesTime(a.slots[i].from) } ELSE {}
    IN  IF given = {} THEN FallbackStart ELSE TimeGiven(a.slots[MaxOf(given)].from)

SuppliedEnd(r) ==
    LET a == SlotsAnswer(r)
        given == IF a.hasSlots THEN { i \in DOMAIN a.slots : GivesTime(a.slots[i].to) } ELSE {}
    IN  IF given = {} THEN FallbackEnd ELSE TimeGiven(a.slots[MaxOf(given)].to)

Contiguous ==
    /\ \A i \in DOMAIN result : SlotTo(i) - SlotFrom(i) = slotDuration
    /\ \A i \in 1..(Len(result) - 1) : SlotTo(i) = SlotFrom(i + 1)

\* C3 as stated: with the default slot duration the span of the slots is
\* exactly [min workStart, max workEnd), partitioned into contiguous slots.
C3_SpanEqualsUnion ==
    (NormalDone /\ slotDuration = DEFAULT_SLOT_DURATION) =>
        IF result = <<>>
        THEN UnionEnd <= UnionStart
        ELSE /\ SlotFrom(1) = UnionStart
             /\ SlotTo(Len(result)) = UnionEnd
             /\ Contiguous

\* C3 amended: the slots partition [min workStart, min workStart + n * d),
\* n the number of whole slots that fit before max workEnd, into contiguous
\* slots of d minutes; that span is the whole union window exactly when d
\* divides its length.
C3_SpanIsWholeSlots ==
    NormalDone =>
        LET n == IF UnionEnd >= UnionStart THEN (UnionEnd - UnionStart) \div slotDuration ELSE 0
        IN  /\ Len(result) = n
            /\ Contiguous
            /\ result # <<>> =>
                   /\ SlotFrom(1) = UnionStart
                   /\ SlotTo(Len(result)) = UnionEnd <=> (UnionEnd - UnionStart) % slotDuration = 0

\* C3 witness: default slot duration, a union window of 09:30-18:00 whose
\* length is no multiple of 60: the last slot ends before the window does.
C3_Witness ==
    /\ NormalDone
    /\ slotDuration = DEFAULT_SLOT_DURATION
    /\ result # <<>>
    /\ (UnionEnd - UnionStart) % slotDuration # 0
    /\ SlotTo(Len(result)) < UnionEnd

\* the text HH:MM of the minute m of the day
TextOf(m) == <<(m \div 60) \div 10, (m \div 60) % 10, Colon, (m % 60) \div 10, (m % 60) % 10>>

\* the window the slots are cut from: the union window, or 08:00-20:00 when
\* the default slots are returned
BoundStart == IF path = "normal" THEN UnionStart ELSE FallbackStart
BoundEnd == IF path = "normal" THEN UnionEnd ELSE FallbackEnd

\* C4: the slot with index k >= 0 is [start + k * d, start + (k + 1) * d) and
\* it is emitted exactly when it ends at or before the end of the window.
C4_EmittedIffFits ==
    Done =>
        \A k \in 0..(MinutesPerDay \div slotDuration) :
            /\ (k < Len(result)) <=> (BoundStart + (k + 1) * slotDuration <= BoundEnd)
            /\ k < Len(result) =>
                   /\ result[k + 1].startTime = TextOf(BoundStart + k * slotDuration)
                   /\ result[k + 1].endTime = TextOf(BoundStart + (k + 1) * slotDuration)

\* C4 witness: slots of 90 minutes, and a rest shorter than one slot before
\* the end of the window for which no slot was emitted.
C4_Witness ==
    /\ NormalDone
    /\ slotDuration = 90
    /\ result # <<>>
    /\ BoundStart + Len(result) * slotDuration < BoundEnd
    /\ BoundStart + Len(result) * slotDuration = SlotTo(Len(result))

\* C5 as stated: an empty resourceIds yields an empty slot sequence.
C5_EmptyYieldsNoSlots ==
    (Done /\ resourceIds = <<>>) => result = <<>>

\* C5 amended: for an empty resourceIds getAvailableSlots issues no request
\* and returns the slots of the default window 08:00-20:00, cut every
\* slotDuration minutes, each with an empty resourceIds.
C5_EmptyYieldsDefaultSlots ==
    (Done /\ resourceIds = <<>>) =>
        /\ slotsLog = <<>> /\ busyLog = <<>> /\ bookingLog = <<>>
        /\ Len(result) = (FallbackEnd - FallbackStart) \div slotDuration
        /\ \A i \in DOMAIN result :
            /\ result[i].startTime = TextOf(FallbackStart + (i - 1) * slotDuration)
            /\ result[i].endTime = TextOf(FallbackStart + i * slotDuration)
            /\ result[i].resourceIds = <<>>

\* C5 witness: the call with no resource and the default duration has
\* resolved with the twelve slots 08:00-09:00 .. 19:00-20:00.
C5_Witness ==
    /\ Done
    /\ resourceIds = <<>>
    /\ slotDuration = DEFAULT_SLOT_DURATION
    /\ Len(result) = 12
    /\ result[1].startTime = TextOf(FallbackStart)
    /\ result[12].endTime = TextOf(FallbackEnd)

\* C6: in every slot of every sequence getAvailableSlots resolves with,
\* available is true exactly when resourceIds is non-empty.
C6_AvailableIffNonEmpty ==
    Done => \A i \in DOMAIN result : result[i].available <=> (result[i].resourceIds # <<>>)

\* the booking items booking.v1.booking.list answered with
AnsweredBookings == IF bookingLog = <<>> THEN <<>> ELSE rawItemsOf(bookingLog[1])

\* the resources the answered booking item reserves: its resourceId or
\* RESOURCE_ID and the members of its resourceIds array
IdGiven(v) == IF v.kind = "number" THEN { v.n } ELSE IF v.kind = "string" THEN { StrToNum(v.s) } ELSE {}
ReservedBy(item) == IdGiven(item.resourceId) \cup IdGiven(item.RESOURCE_ID) \cup Range(item.resourceIds)

\* the start and end the answered booking item gives, as date-time texts
ItemFrom(item) == IF item.dateFrom.kind = "iso" THEN item.dateFrom ELSE item.DATE_FROM
ItemTo(item) == IF item.dateTo.kind = "iso" THEN item.dateTo ELSE item.DATE_TO

\* C7: an existing booking removes every requested resource it references
\* from the resourceIds of every slot it overlaps, whether it references one
\* resource or several.
C7_BookingRemovesEachResource ==
    NormalDone =>
        \A k \in DOMAIN AnsweredBookings :
            LET item == AnsweredBookings[k]
            IN  (ItemFrom(item).kind = "iso" /\ ItemTo(item).kind = "iso") =>
                    \A r \in ReservedBy(item) \cap Requested : \A i \in DOMAIN result :
                        HalfOpenOverlap(DayBase + SlotFrom(i), DayBase + SlotTo(i),
                                        ItemFrom(item).at, ItemTo(item).at)
                            => r \notin Range(result[i].resourceIds)

\* the sequence s without its k-th element
RemoveAt(s, k) == SubSeq(s, 1, k - 1) \o SubSeq(s, k + 1, Len(s))

\* the slots generateSlots returns when the existing booking k is left out
WithoutBooking(k) ==
    generateSlots(resourceIds, date, configs, RemoveAt(existingBookings, k), slotDuration)

\* the configs with the config of r replaced by c
ConfigsWith(r, c) == [i \in DOMAIN configs |-> IF configs[i].resourceId = r THEN c ELSE configs[i]]

\* the slots generateSlots returns when the blocked interval j of r is left out
WithoutBlocked(r, j) ==
    generateSlots(resourceIds, date,
                  ConfigsWith(r, [ConfigOf(r) EXCEPT !.blockedSlots = RemoveAt(@, j)]),
                  existingBookings, slotDuration)

\* a and b are two requested resources with identical working windows, a has
\* a booking 14:00-15:00 of the queried day, b has neither a booking nor a
\* blocked interval
P4Setup(a, b) ==
    /\ a # b
    /\ WindowStart(a) = WindowStart(b)
    /\ WindowEnd(a) = WindowEnd(b)
    /\ ConfigOf(b).blockedSlots = <<>>
    /\ \A k \in DOMAIN existingBookings : existingBookings[k].resourceId # b
    /\ \E k \in DOMAIN existingBookings :
        /\ existingBookings[k].resourceId = a
        /\ existingBookings[k].dateFrom = DIso(DayBase + 14 * 60)
        /\ existingBookings[k].dateTo = DIso(DayBase + 15 * 60)

\* C8: a booking of resource a alone leaves the membership of every other
\* requested resource b in every slot as it is without that booking; with
\* identical windows and a booking of a at 14:00-15:00 the 14:00 slot has
\* resourceIds = [b] and is available.
C8_BookingOfOtherResource ==
    NormalDone =>
        /\ \A k \in DOMAIN existingBookings :
               LET without == WithoutBooking(k)
               IN  /\ Len(without) = Len(result)
                   /\ \A b \in Requested : \A i \in DOMAIN result :
                          existingBookings[k].resourceId # b =>
                              ((b \in Range(result[i].resourceIds))
                                   <=> (b \in Range(without[i].resourceIds)))
        /\ \A a \in Requested, b \in Requested :
               P4Setup(a, b) =>
                   \A i \in DOMAIN result :
                       result[i].startTime = TextOf(14 * 60) =>
                           result[i].resourceIds = <<b>> /\ result[i].available

\* C8 witness: the setup of P4 with a slot that starts at 14:00.
C8_Witness ==
    /\ NormalDone
    /\ \E a \in Requested, b \in Requested :
        /\ P4Setup(a, b)
        /\ \E i \in DOMAIN result :
            /\ result[i].startTime = TextOf(14 * 60)
            /\ result[i].resourceIds = <<b>>

\* C9: intervals are half-open.  A booking or blocked interval of r takes r
\* out of a slot exactly when [a, b) and [c, d) satisfy a < d and c < b: where
\* they do, r is not in the slot; where they do not (in particular where the
\* interval only touches the slot), r is in the slot exactly when it is there
\* without that interval.
C9_HalfOpenIntervals ==
    NormalDone =>
        /\ \A k \in DOMAIN existingBookings :
               (BookingTimed(k) /\ existingBookings[k].resourceId \in Requested) =>
                   LET r == existingBookings[k].resourceId
                       from == existingBookings[k].dateFrom.at - DayBase
                       to == existingBookings[k].dateTo.at - DayBase
                       without == WithoutBooking(k)
                   IN  /\ Len(without) = Len(result)
                       /\ \A i \in DOMAIN result :
                              IF HalfOpenOverlap(SlotFrom(i), SlotTo(i), from, to)
                              THEN r \notin Range(result[i].resourceIds)
                              ELSE (r \in Range(result[i].resourceIds))
                                       <=> (r \in Range(without[i].resourceIds))
        /\ \A r \in Requested : \A j \in DOMAIN ConfigOf(r).blockedSlots :
               LET from == TextMinutes(ConfigOf(r).blockedSlots[j].start)
                   to == TextMinutes(ConfigOf(r).blockedSlots[j].end)
                   without == WithoutBlocked(r, j)
               IN  /\ Len(without) = Len(result)
                   /\ \A i \in DOMAIN result :
                          IF HalfOpenOverlap(SlotFrom(i), SlotTo(i), from, to)
                          THEN r \notin Range(result[i].resourceIds)
                          ELSE (r \in Range(result[i].resourceIds))
                                   <=> (r \in Range(without[i].resourceIds))

\* C9 witness: a booking of r ends exactly at the start of a slot, a blocked
\* interval of q starts exactly at the end of a slot, and r and q are
\* available in those slots.
C9_Witness ==
    /\ NormalDone
    /\ \E k \in DOMAIN existingBookings : \E i \in DOMAIN result :
        /\ BookingTimed(k)
        /\ existingBookings[k].dateTo.at = DayBase + SlotFrom(i)
        /\ existingBookings[k].dateFrom.at < existingBookings[k].dateTo.at
        /\ existingBookings[k].resourceId \in Range(result[i].resourceIds)
    /\ \E q \in Requested : \E j \in DOMAIN ConfigOf(q).blockedSlots : \E i \in DOMAIN result :
        /\ TextMinutes(ConfigOf(q).blockedSlots[j].start) = SlotTo(i)
        /\ q \in Range(result[i].resourceIds)

\* the existing booking k lies on the queried day
OnQueriedDay(k) ==
    /\ BookingTimed(k)
    /\ DayBase <= existingBookings[k].dateFrom.at
    /\ existingBookings[k].dateFrom.at < DayBase + MinutesPerDay
    /\ DayBase <= existingBookings[k].dateTo.at
    /\ existingBookings[k].dateTo.at < DayBase + MinutesPerDay

\* the configs in which the resource of the existing booking k has, in
\* addition, the blocked interval that resourceBusyTime.list yields for a busy
\* time with the start and end of that booking
BookingAsBlocked(k) ==
    LET r == existingBookings[k].resourceId
    IN  ConfigsWith(r, pushBusy(ConfigOf(r),
                                BusyItem(existingBookings[k].dateFrom, existingBookings[k].dateTo,
                                         DUndef, DUndef, DUndef, DUndef)))

\* C10: replacing an existing booking of a requested resource r by a blocked
\* interval of r with the same start and end on the queried day yields the
\* same slot sequence.
C10_BlockedEquivalent ==
    NormalDone =>
        \A k \in DOMAIN existingBookings :
            (OnQueriedDay(k) /\ existingBookings[k].resourceId \in Requested) =>
                generateSlots(resourceIds, date, BookingAsBlocked(k),
                              RemoveAt(existingBookings, k), slotDuration) = result

\* C10 witness: a booking on the queried day is what keeps its resource out
\* of a slot that starts before the booking does.
C10_Witness ==
    /\ NormalDone
    /\ \E k \in DOMAIN existingBookings : \E i \in DOMAIN result :
        /\ OnQueriedDay(k)
        /\ existingBookings[k].resourceId \in Requested
        /\ SlotFrom(i) < existingBookings[k].dateFrom.at - DayBase
        /\ existingBookings[k].resourceId \notin Range(result[i].resourceIds)
        /\ existingBookings[k].resourceId \in Range(WithoutBooking(k)[i].resourceIds)

\* a booking as getBookingsForDate maps it, of a resource that is not among
\* the requested ones, over 14:00-15:00 of the queried day
OutsideBooking ==
    mapBookingItem(BookingOf(9, 3, DayBase + 14 * 60, DayBase + 15 * 60))

\* C11: existing bookings of resources outside resourceIds are ignored:
\* leaving such a booking out, or adding one, leaves the slot sequence
\* generateSlots returns as it is.
C11_OutsideBookingsIgnored ==
    NormalDone =>
        /\ \A k \in DOMAIN existingBookings :
               existingBookings[k].resourceId \notin Requested => WithoutBooking(k) = result
        /\ generateSlots(resourceIds, date, configs,
                         Append(existingBookings, OutsideBooking), slotDuration) = result

\* C11 witness: a booking of a resource that is not requested overlaps a slot
\* in which a requested resource is available.
C11_Witness ==
    /\ NormalDone
    /\ \E k \in DOMAIN existingBookings : \E i \in DOMAIN result :
        /\ BookingTimed(k)
        /\ existingBookings[k].resourceId = 3
        /\ HalfOpenOverlap(DayBase + SlotFrom(i), DayBase + SlotTo(i),
                           existingBookings[k].dateFrom.at, existingBookings[k].dateTo.at)
        /\ result[i].resourceIds # <<>>

\* getResourceConfigs has returned: a config stands for every requested
\* resource and the call has not failed
ConfigsBuilt == pc = "bookingList" \/ NormalDone

\* the working-hours lookup for r failed / answered without any time of day
LookupFailed(r) == SlotsAnswer(r).kind = "error"
LookupGaveNothing(r) ==
    /\ SlotsAnswer(r).kind = "data"
    /\ \/ ~SlotsAnswer(r).hasSlots
       \/ \A i \in DOMAIN SlotsAnswer(r).slots :
              ~GivesTime(SlotsAnswer(r).slots[i].from) /\ ~GivesTime(SlotsAnswer(r).slots[i].to)

\* the busy times booking.v1.resourceBusyTime.list answered with for r that
\* carry both a start and an end
BusyAnswer(r) == busyLog[CHOOSE i \in DOMAIN busyLog : busyLog[i].resourceId = r].response
BusyAsked(r) == \E i \in DOMAIN busyLog : busyLog[i].resourceId = r
HasInstant(item, names) == \E f \in names : item[f].kind = "iso"
UsableBusyTimes(r) ==
    IF BusyAsked(r) /\ BusyAnswer(r).kind # "error"
    THEN { j \in DOMAIN BusyAnswer(r).items :
              /\ HasInstant(BusyAnswer(r).items[j], {"dateFrom", "DATE_FROM", "from"})
              /\ HasInstant(BusyAnswer(r).items[j], {"dateTo", "DATE_TO", "to"}) }
    ELSE {}

HasDefaultWindow(r) == WindowStart(r) = FallbackStart /\ WindowEnd(r) = FallbackEnd

OthersKeepConfig ==
    \A q \in Requested :
        ~(LookupFailed(q) \/ LookupGaveNothing(q)) =>
            WindowStart(q) = SuppliedStart(q) /\ WindowEnd(q) = SuppliedEnd(q)

\* C12 as stated: a requested resource whose working-hours lookup fails or
\* returns nothing gets the window 08:00-20:00 and no blocked intervals, the
\* call does not fail, and the other resources keep their configuration.
C12_FallbackWithoutBlocked ==
    ConfigsBuilt =>
        /\ \A r \in Requested :
               (LookupFailed(r) \/ LookupGaveNothing(r)) =>
                   HasDefaultWindow(r) /\ ConfigOf(r).blockedSlots = <<>>
        /\ OthersKeepConfig

\* C12 amended: such a resource gets the window 08:00-20:00; it has no
\* blocked intervals when the lookup failed (the busy times are then not
\* asked for), and the blocked intervals of its busy times when the lookup
\* answered without a window; the call does not fail and the other resources
\* keep their configuration.
C12_FallbackWindow ==
    ConfigsBuilt =>
        /\ \A r \in Requested :
               /\ LookupFailed(r) =>
                      HasDefaultWindow(r) /\ ConfigOf(r).blockedSlots = <<>> /\ ~BusyAsked(r)
               /\ LookupGaveNothing(r) =>
                      /\ HasDefaultWindow(r)
                      /\ Len(ConfigOf(r).blockedSlots) = Cardinality(UsableBusyTimes(r))
        /\ OthersKeepConfig

\* C12 witness: of two requested resources the lookup failed for one and
\* answered without a window for the other, which has blocked intervals; the
\* slots are computed.
C12_Witness ==
    /\ NormalDone
    /\ result # <<>>
    /\ \E r \in Requested, q \in Requested :
        /\ LookupFailed(r)
        /\ LookupGaveNothing(q)
        /\ ConfigOf(q).blockedSlots # <<>>

\* a text HH:MM
IsTimeText(s) ==
    /\ Len(s) = 5
    /\ s[3] = Colon
    /\ \A p \in {1, 2, 4, 5} : s[p] \in 0..9

\* result is a sequence of time slots of slotDuration minutes that offer
\* requested resources only
IsSlotSequence ==
    \A i \in DOMAIN result :
        /\ IsTimeText(result[i].startTime) /\ IsTimeText(result[i].endTime)
        /\ SlotTo(i) - SlotFrom(i) = slotDuration
        /\ result[i].available \in BOOLEAN
        /\ Range(result[i].resourceIds) \subseteq Requested

\* result is what the fallback defaults give: the window 08:00-20:00 cut
\* every slotDuration minutes, every requested resource free in every slot
IsFallbackResult ==
    /\ Len(result) = (FallbackEnd - FallbackStart) \div slotDuration
    /\ \A i \in DOMAIN result :
           /\ SlotFrom(i) = FallbackStart + (i - 1) * slotDuration
           /\ result[i].resourceIds = resourceIds
           /\ result[i].available

\* every upstream lookup of the call failed
AllLookupsFailed ==
    /\ \A r \in Requested : LookupFailed(r)
    /\ bookingLog # <<>> /\ bookingLog[1].kind = "error"

\* C13: getAvailableSlots is total.  Every call that has ended has resolved
\* with a slot sequence; a lookup that failed counts as the fallback default
\* (window 08:00-20:00, no blocked intervals, no bookings), and so does a date
\* that cannot be formatted.
C13_AlwaysResolves ==
    Done =>
        /\ path \in {"empty", "normal", "error"}
        /\ IsSlotSequence
        /\ path = "error" => IsFallbackResult
        /\ (path = "normal" /\ AllLookupsFailed) => IsFallbackResult
        /\ path = "normal" =>
               /\ \A r \in Requested :
                      (BusyAsked(r) /\ BusyAnswer(r).kind = "error") => ConfigOf(r).blockedSlots = <<>>
               /\ bookingLog[1].kind = "error" => existingBookings = <<>>

\* C13 witness: a call for two resources of which every lookup failed has
\* resolved with slots.
C13_Witness ==
    /\ NormalDone
    /\ Len(resourceIds) = 2
    /\ AllLookupsFailed
    /\ result # <<>>

\* the number of iterations of the generation loop: each iteration pushes
\* one slot and advances currentMinutes by slotDuration
Iterations == Len(result)

\* C14: for a positive slotDuration the generation loop ends after at most
\* floor((end - start) / slotDuration) iterations, start and end the bounds of
\* the window the slots are cut from, and after none when the window is
\* shorter than one slot.
C14_LoopBound ==
    Done =>
        /\ slotDuration > 0
        /\ Iterations <= (IF BoundEnd > BoundStart THEN (BoundEnd - BoundStart) \div slotDuration ELSE 0)
        /\ BoundEnd - BoundStart < slotDuration => Iterations = 0

\* C14 witness: a union window of 14:00-15:00 and a slot duration of 90: the
\* loop body never runs.
C14_Witness ==
    /\ NormalDone
    /\ UnionStart < UnionEnd
    /\ UnionEnd - UnionStart < slotDuration
    /\ Iterations = 0

\* C15: the slots are in ascending order of their start time: each slot
\* starts strictly later than the one before it, as minutes of the day and
\* as the HH:MM texts the slots carry.
C15_AscendingStart ==
    Done =>
        \A i \in 1..(Len(result) - 1) :
            /\ SlotFrom(i) < SlotFrom(i + 1)
            /\ StrLess(result[i].startTime, result[i + 1].startTime)

\* C15 witness: slots of 90 minutes that start in the morning and in the
\* afternoon.
C15_Witness ==
    /\ NormalDone
    /\ slotDuration = 90
    /\ \E i \in DOMAIN result : SlotFrom(i) < 12 * 60
    /\ \E i \in DOMAIN result : SlotFrom(i) >= 13 * 60

\* the setup of P2: one requested resource with the working window
\* 08:00-20:00, no blocked interval, no existing booking, slots of 60 minutes
P2Setup ==
    /\ Len(resourceIds) = 1
    /\ HasDefaultWindow(resourceIds[1])
    /\ ConfigOf(resourceIds[1]).blockedSlots = <<>>
    /\ existingBookings = <<>>
    /\ slotDuration = 60

\* C19: in the setup of P2 generateSlots returns exactly the 12 slots
\* 08:00-09:00 ... 19:00-20:00, each available with the resource as its only
\* member.
C19_NoBookingBaseline ==
    (NormalDone /\ P2Setup) =>
        /\ Len(result) = 12
        /\ \A i \in DOMAIN result :
               /\ result[i].startTime = TextOf((7 + i) * 60)
               /\ result[i].endTime = TextOf((8 + i) * 60)
               /\ result[i].available
               /\ result[i].resourceIds = resourceIds

\* C19 witness: the setup of P2 reached through a slots.list answer that
\* carries no window and a booking.list answer without items.
C19_Witness ==
    /\ NormalDone
    /\ P2Setup
    /\ LookupGaveNothing(resourceIds[1])
    /\ bookingLog[1].kind = "array"
    /\ Len(result) = 12

\* generateSlots has been called a second time, at a later time of the host
CalledAgain == pc = "again"

C18_ReturnedSlotsStable ==
    pc = "mutated" => heldSlots = result

\* every getAvailableSlots call of the form has settled
AllSettled == issued > 0 /\ outstanding = {}

\* C20: the form calls getAvailableSlots on every change of the date or of
\* the resource set, and once all its calls have settled the slots it holds
\* are those computed for the current selection.
C20_ShowsCurrentSelection ==
    AllSettled =>
        /\ shownFor = selection
        /\ availableSlots = settledSlots(selection[1], selection[2])

\* ------------------------------------------------------------------------
\* The SDK bridge
\* ------------------------------------------------------------------------
\* the places of the log where the event e stands
Places(e) == { i \in DOMAIN sdkLog : sdkLog[i] = e }

\* the places of the log where a request of kind what was handed to the SDK
Requests(what) == { i \in DOMAIN sdkLog : sdkLog[i][1] = what }

\* C21: for one Bitrix24Api, BX24.init is invoked at most once however many
\* init, callMethod, callBatch and fetchAll calls overlap before the
\* initialisation completes, and no BX24.callMethod is issued before the
\* callback of BX24.init has fired
C21_InitOnceBeforeCalls ==
    /\ Cardinality(Places(<<"BX24.init">>)) <= 1
    /\ \A i \in Requests("BX24.callMethod") :
           \E j \in Places(<<"initCallback">>) : j < i

\* two calls were made before the callback of BX24.init fired, and both have
\* handed their request to the SDK since
C21_Witness ==
    /\ \E k \in Places(<<"initCallback">>) :
           \A c \in Callers : \E i \in Places(<<"invoke", c>>) : i < k
    /\ \A c \in Callers : \E i \in Requests("BX24.callMethod") : sdkLog[i][2] = c

\* the requests of the fetchAll call of caller c, as places of the log
PageRequests(c) ==
    { i \in Requests("BX24.callMethod") : sdkLog[i][2] = c /\ methodOf(c) = "fetchAll" }

\* C22: fetchAll cannot loop forever, whatever the server answers: successive
\* requests use strictly increasing start offsets and the safety limit stops
\* the paging, so every further request finds the call nearer to its end than
\* the request before it: with a larger start and with more records
\* collected, of which there are fewer than the safety limit
C22_PagingComesToAnEnd ==
    \A c \in Callers : \A i, j \in PageRequests(c) :
        i < j => /\ sdkLog[i][3] < sdkLog[j][3]
                 /\ sdkLog[i][4] < sdkLog[j][4]
                 /\ sdkLog[j][4] < safetyLimit

\* ------------------------------------------------------------------------
\* The weekly view
\* ------------------------------------------------------------------------
\* C23: after any sequence of week changes and refresh events, once no load
\* is in flight the rendered weeklyBookings are those fetched for the current
\* currentWeekStart: a week change that arrives while an earlier load is in
\* flight is not lost (no fetch having failed)
C23_ShowsCurrentWeek ==
    (~isLoading /\ inFlight = NoWeek /\ ~loadFailed /\ weeklyBookings # NoWeek)
        => weeklyBookings = currentWeekStart

\* the refresh events after which no further one came within refreshDelay:
\* the last events of the bursts, as places of eventTimes
BurstEnds ==
    { i \in DOMAIN eventTimes :
          i = Len(eventTimes) \/ eventTimes[i + 1] - eventTimes[i] >= refreshDelay }

\* the burst that ends at place i is over: its timer is no longer set
BurstOver(i) == (eventTimes[i] + refreshDelay) \notin timers

\* C24: refreshBookings is debounced: a burst of refresh events, each less
\* than 500 ms after the one before, triggers exactly one loadBookings call,
\* 500 ms after the last event of the burst: the calls made by timers are, in
\* order, one per burst that is over, each at the time of its last event plus
\* refreshDelay, and no timer is set for an event that is not the last of the
\* last burst
C24_OneLoadPerBurst ==
    /\ Len(timerLoads) = Cardinality({ i \in BurstEnds : BurstOver(i) })
    /\ \A k \in DOMAIN timerLoads :
           \E i \in BurstEnds :
               /\ BurstOver(i)
               /\ Cardinality({ j \in BurstEnds : j <= i }) = k
               /\ timerLoads[k] = eventTimes[i] + refreshDelay
    /\ \A t \in timers :
           Len(eventTimes) > 0 /\ t = eventTimes[Len(eventTimes)] + refreshDelay

\* two bursts are over, the first of them with more than one event, and each
\* has caused its loadBookings call
C24_Witness ==
    /\ Len(timerLoads) = 2
    /\ Len(eventTimes) = 3
    /\ eventTimes[2] - eventTimes[1] \in 1 .. (refreshDelay - 1)
    /\ timers = {}

\* ------------------------------------------------------------------------
\* The resources
\* ------------------------------------------------------------------------
\* the getResources calls, as places of cacheCalls
ListCalls == { i \in DOMAIN cacheCalls : cacheCalls[i][1] = "getResources" }

\* when the call at place i was made, a list had been loaded less than
\* CACHE_DURATION before
LoadedRecently(i) ==
    /\ cacheCalls[i][7] # NeverLoaded
    /\ cacheCalls[i][3] - cacheCalls[i][7][1] < CACHE_DURATION

\* when the call at place i was made, the last load was CACHE_DURATION or
\* more ago
LoadedLongAgo(i) ==
    /\ cacheCalls[i][7] # NeverLoaded
    /\ cacheCalls[i][3] - cacheCalls[i][7][1] >= CACHE_DURATION

C26_CachesCoherent ==
    \A i \in DOMAIN cacheCalls :
        (cacheCalls[i][1] = "getResource" /\ cacheCalls[i][4] = "done")
            => \A k \in DOMAIN cacheCalls[i][7][2] :
                   cacheCalls[i][7][2][k][1] = cacheCalls[i][2]
                       => cacheCalls[i][5] = cacheCalls[i][7][2][k]

C28_AllOrNothing ==
    /\ reported = "failure" => createdFor = <<>>
    /\ reported = "success" => Range(createdFor) = Range(submitForm[1])
\* C29: after every toggleResource call, in any sequence of selects and
\* deselects, state.selectedResourceIds is not empty and holds no resource
\* twice, and state.selectedResourceId is one of its members.
C29_ToggleKeepsSelection ==
    afterToggle =>
        /\ Len(selection[1]) > 0
        /\ \A i, j \in DOMAIN selection[1] : selection[1][i] = selection[1][j] => i = j
        /\ selectedResourceId # NoResource
        /\ selectedResourceId \in Range(selection[1])

\* C29: resource 2 was selected and then resource 1 deselected, which was
\* state.selectedResourceId: the selection is [2] and resource 2 is
\* state.selectedResourceId.
C29_Witness ==
    /\ afterToggle
    /\ selection[1] = <<2>>
    /\ selectedResourceId = 2
====
